---------------------------- MODULE Spec2Model ----------------------------
(***************************************************************************)
(* A model of the StuffIt archive reader of common/compression/stuffit.cpp *)
(* (class StuffItArchive): open() with its entry-header loop, the folder   *)
(* prefix, the two maps, and the lookup and read operations.               *)
(*                                                                         *)
(* Bytes are numbers 0..255, names are sequences of one-character strings. *)
(* An archive stream is read once, front to back, by open(): the model     *)
(* draws the archive header when open() starts and one 112-byte entry      *)
(* header per iteration of the loop.                                       *)
(***************************************************************************)
EXTENDS Integers, Sequences, FiniteSets, TLC

(***************************************************************************)
(* Machine arithmetic                                                      *)
(***************************************************************************)
\* Sizes, offsets and stream positions are wider than the integers of the
\* checker, so each is a pair <<hi, lo>> that stands for hi * 65536 + lo with
\* lo in 0..65535.  A uint32 has hi in 0..65535; an int64 stream position may
\* have a larger hi.
Half == 65536

Wide(n) == <<n \div Half, n % Half>>

WAdd(a, b) == <<a[1] + b[1] + ((a[2] + b[2]) \div Half), (a[2] + b[2]) % Half>>

WLess(a, b) == a[1] < b[1] \/ (a[1] = b[1] /\ a[2] < b[2])

WLeq(a, b) == a = b \/ WLess(a, b)

\* conversion to uint32
ToU32(a) == <<a[1] % Half, a[2]>>

\* the largest uint32
MaxU32 == <<Half - 1, Half - 1>>

RECURSIVE BitAnd(_, _)
\* a & b on non-negative integers
BitAnd(a, b) ==
  IF a = 0 \/ b = 0 THEN 0
  ELSE (IF a % 2 = 1 /\ b % 2 = 1 THEN 1 ELSE 0) + 2 * BitAnd(a \div 2, b \div 2)

RECURSIVE BitXor(_, _)
\* a ^ b on non-negative integers
BitXor(a, b) ==
  IF a = 0 THEN b
  ELSE IF b = 0 THEN a
  ELSE ((a + b) % 2) + 2 * BitXor(a \div 2, b \div 2)

(***************************************************************************)
(* CRC-16 (reflected polynomial 0xA001, initial value 0, no final xor)     *)
(***************************************************************************)
CRCPoly == 40961

RECURSIVE CRCBits(_, _)
\* the eight shift steps that follow the xor of one byte into the register
CRCBits(crc, n) ==
  IF n = 0 THEN crc
  ELSE CRCBits(IF crc % 2 = 1 THEN BitXor(crc \div 2, CRCPoly) ELSE crc \div 2, n - 1)

CRCByte(crc, b) == CRCBits(BitXor(crc, b), 8)

RECURSIVE CRCRange(_, _, _, _)
\* the register after bytes[lo..hi], fed in order, starting from crc (the
\* range is halved only to keep the evaluation shallow)
CRCRange(crc, bytes, lo, hi) ==
  IF lo > hi THEN crc
  ELSE IF lo = hi THEN CRCByte(crc, bytes[lo])
  ELSE LET mid == (lo + hi) \div 2
           left == CRCRange(crc, bytes, lo, mid)
       IN IF left >= 0 THEN CRCRange(left, bytes, mid + 1, hi) ELSE 0

\* Common::CRC16().crcFast(bytes, Len(bytes))
crcFast(bytes) == CRCRange(0, bytes, 1, Len(bytes))

(***************************************************************************)
(* Characters and strings                                                  *)
(***************************************************************************)
\* the byte value of a character of the model's alphabet
Ord(c) ==
  CASE c = "a" -> 97
    [] c = "A" -> 65
    [] c = "b" -> 98
    [] c = "f" -> 102
    [] c = ":" -> 58

\* the lower-case form of a character
LowerChar(c) == IF c = "A" THEN "a" ELSE c

ToLower(s) == [i \in 1..Len(s) |-> LowerChar(s[i])]

\* Common::String::rfind(c, from): the last index <= from (0-based) holding c,
\* or npos
npos == -1

RECURSIVE rfind(_, _, _)
rfind(s, c, from) ==
  IF from < 0 THEN npos
  ELSE IF from >= Len(s) THEN rfind(s, c, Len(s) - 1)
  ELSE IF s[from + 1] = c THEN from
  ELSE rfind(s, c, from - 1)

\* Common::String::substr(0, n)
substr0(s, n) == SubSeq(s, 1, n)

HasColon(s) == \E i \in 1..Len(s) : s[i] = ":"

CountColons(s) == Cardinality({i \in 1..Len(s) : s[i] = ":"})

(***************************************************************************)
(* The 112-byte entry header                                               *)
(*                                                                         *)
(* A header is a record of the fields open() reads from it, plus its last  *)
(* two bytes b110 and b111.  The Finder type and creator, the two dates    *)
(* and the six unknown bytes are zero in every header the model draws.     *)
(***************************************************************************)
kMaxFileLength == 31

HeaderSize == 112

\* the bytes open() consumes before the entry loop: tag, file count, archive
\* size, second magic, version, seven unknown bytes
ArchiveHeaderSize == 22

Zeros(n) == [i \in 1..n |-> 0]

BE16(x) == <<(x \div 256) % 256, x % 256>>

BE32(x) == <<x[1] \div 256, x[1] % 256, x[2] \div 256, x[2] % 256>>

ContentFields ==
  {"resForkCompression", "dataForkCompression", "fileNameLength", "name", "flags",
   "resForkUncompressedSize", "dataForkUncompressedSize",
   "resForkCompressedSize", "dataForkCompressedSize", "resForkCRC", "dataForkCRC"}

Content(h) == [f \in ContentFields |-> h[f]]

\* bytes 3..65 of the header: the name, zero padded
NameArea(h) == [i \in 1..63 |-> IF i <= Len(h.name) THEN Ord(h.name[i]) ELSE 0]

\* the first 110 bytes of the header, in the order open() reads them
HeaderBytes(h) ==
  <<h.resForkCompression, h.dataForkCompression, h.fileNameLength>>
    \o NameArea(h)
    \o Zeros(8)
    \o BE16(h.flags)
    \o Zeros(8)
    \o BE32(h.resForkUncompressedSize) \o BE32(h.dataForkUncompressedSize)
    \o BE32(h.resForkCompressedSize) \o BE32(h.dataForkCompressedSize)
    \o BE16(h.resForkCRC) \o BE16(h.dataForkCRC)
    \o Zeros(6)

\* a variant of headerCRC that reads the last two bytes low byte first
headerCRC_LittleEndian(h) == h.b111 * 256 + h.b110

\* headerStream.readUint16BE() on the last two bytes (line 204)
headerCRC(h) == h.b110 * 256 + h.b111

\* the header contents built from sets of field values
Contents(RC, DC, NAMES, RU, DU, RCS, DCS) ==
  {[resForkCompression |-> rc, dataForkCompression |-> dc,
    fileNameLength |-> nm[1], name |-> nm[2], flags |-> 0,
    resForkUncompressedSize |-> ru, dataForkUncompressedSize |-> du,
    resForkCompressedSize |-> rcs, dataForkCompressedSize |-> dcs,
    resForkCRC |-> 0, dataForkCRC |-> 0] :
     rc \in RC, dc \in DC, nm \in NAMES, ru \in RU, du \in DU, rcs \in RCS, dcs \in DCS}

\* the contents of C with the fork CRC fields taken from sets of values
ContentsCRC(C, RCRCS, DCRCS) ==
  {[c EXCEPT !.resForkCRC = r, !.dataForkCRC = d] : c \in C, r \in RCRCS, d \in DCRCS}

\* a name with its length byte
Named(name) == <<Len(name), name>>

\* the streams built from sets of field values
Streams(SIZES, TAGS, ASIZES, MAGICS) ==
  {[present |-> TRUE, size |-> sz, tag |-> t, archiveSize |-> a, magic2 |-> m] :
     sz \in SIZES, t \in TAGS, a \in ASIZES, m \in MAGICS}


(***************************************************************************)
(* Paths                                                                   *)
(*                                                                         *)
(* A Common::Path built from a string with separator ':' is kept as the    *)
(* string; the maps hash and compare keys ignoring case, so a key is kept  *)
(* in lower case.                                                          *)
(***************************************************************************)
PathKey(name) == ToLower(name)

RECURSIVE LastColon(_, _)
\* the 1-based index of the last ':' of s at or before i, 0 if there is none
LastColon(s, i) ==
  IF i = 0 THEN 0 ELSE IF s[i] = ":" THEN i ELSE LastColon(s, i - 1)

\* Common::Path::getLastComponent()
getLastComponent(p) == SubSeq(p, LastColon(p, Len(p)) + 1, Len(p))

(***************************************************************************)
(* State                                                                   *)
(***************************************************************************)
VARIABLES
  pc,            \* where the archive object is: "closed" (constructed),
                 \* "parsing" (inside open()'s entry loop), "open" (open()
                 \* returned true), "failed" (open() returned false),
                 \* "fatal" (error() was called: the program has ended)
  _stream,       \* the backing stream: [open, size, pos, eos]; open is
                 \* FALSE when the pointer is null
  _flattenTree,
  archiveSize,   \* open()'s local archiveSize
  dirPrefix,     \* open()'s local dirPrefix
  _map,          \* path key -> FileEntry
  _metadataMap,  \* path key -> Finder info
  err,           \* the error() that ended the program, "none" otherwise
  ret,           \* what the last call returned
  src,           \* the stream handed to the last open() call
  stack,         \* history: the names of the folders started and not yet ended
  last,          \* history: the entry header handled by the last iteration
  threads,       \* the reads that run side by side on the open archive, each
                 \* with its position in readContentsForPathFork and its locals
  sit13,         \* a run of SIT13_Extract: its locals, the window, the output
  sit14          \* a run of decompress14: its locals, the window, the output

\* the archive object, what its calls return and the history kept of open()
archive == <<pc, _stream, _flattenTree, archiveSize, dirPrefix, _map, _metadataMap,
             err, ret, src, stack, last>>

\* the reads side by side and the decoder runs
decoders == <<threads, sit13, sit14>>

vars == <<pc, _stream, _flattenTree, archiveSize, dirPrefix, _map, _metadataMap,
          err, ret, src, stack, last, threads, sit13, sit14>>

\* a read or a decoder run that has not begun
Idle == [pc |-> "idle"]

NoStream == [open |-> FALSE, size |-> Wide(0), pos |-> Wide(0), eos |-> FALSE]

EmptyMap == [k \in {} |-> 0]

\* StuffItArchive::FileEntryFork::FileEntryFork()
FileEntryFork ==
  [uncompressedSize |-> Wide(0), compressedSize |-> Wide(0), offset |-> Wide(0),
   crc |-> 0, compression |-> 0]

FileEntry == [dataFork |-> FileEntryFork, resFork |-> FileEntryFork]

NoHeader ==
  [resForkCompression |-> 0, dataForkCompression |-> 0, fileNameLength |-> 0,
   name |-> <<>>, flags |-> 0,
   resForkUncompressedSize |-> Wide(0), dataForkUncompressedSize |-> Wide(0),
   resForkCompressedSize |-> Wide(0), dataForkCompressedSize |-> Wide(0),
   resForkCRC |-> 0, dataForkCRC |-> 0, b110 |-> 0, b111 |-> 0]

NoLast == [kind |-> "none", h |-> NoHeader, key |-> <<>>, short |-> FALSE]

NoRet ==
  [op |-> "none", path |-> <<>>, res |-> "none", len |-> Wide(0), paths |-> {}, data |-> <<>>]

\* what a call returned: data holds the bytes of a block a read returned
RetData(op, path, res, len, data) ==
  [op |-> op, path |-> path, res |-> res, len |-> len, paths |-> {}, data |-> data]

Ret(op, path, res, len) == RetData(op, path, res, len, <<>>)

NoSrc == [present |-> FALSE, size |-> 0, tag |-> "", archiveSize |-> Wide(0), magic2 |-> ""]

\* StuffItArchive::StuffItArchive()
Init ==
  /\ pc = "closed"
  /\ _stream = NoStream
  /\ _flattenTree = FALSE
  /\ archiveSize = Wide(0)
  /\ dirPrefix = <<>>
  /\ _map = EmptyMap
  /\ _metadataMap = EmptyMap
  /\ err = "none"
  /\ ret = NoRet
  /\ src = NoSrc
  /\ stack = <<>>
  /\ last = NoLast
  /\ threads = [t \in {1, 2} |-> Idle]
  /\ sit13 = Idle
  /\ sit14 = Idle

(***************************************************************************)
(* The backing stream                                                      *)
(***************************************************************************)
\* read(buf, n): the position moves over the bytes that exist; reading past
\* the end sets eos
StreamRead(st, n) ==
  LET end == WAdd(st.pos, Wide(n))
  IN [st EXCEPT !.pos = IF WLeq(end, st.size) THEN end
                        ELSE IF WLeq(st.pos, st.size) THEN st.size ELSE st.pos,
                !.eos = st.eos \/ WLess(st.size, end)]

\* skip(n), n a uint32: a relative seek, which clears eos
StreamSkip(st, n) == [st EXCEPT !.pos = WAdd(st.pos, n), !.eos = FALSE]

\* the value of a field of `len` bytes at offset `at` of a stream of `size`
\* bytes: the field when the stream holds all of it, else `short`
FieldAt(size, at, len, value, short) == IF at + len <= size THEN value ELSE short

(***************************************************************************)
(* The entry headers the specifications draw                               *)
(***************************************************************************)
\* how many entry headers the streams of Spec have room for
GenEntries == 2

\* how many entry headers the streams of SpecForks have room for
ForkEntries == 1

\* how many entry headers the streams of SpecNames have room for
NameEntries == 3

\* how many entry headers the streams of SpecFolders have room for
FolderEntries == 11

\* Spec: files, folder starts and folder ends (160 is a folder start with the
\* 0x80 flag), with a name of one byte and with a length byte of 32
GenContents ==
  Contents({0}, {0, 32, 33, 160}, {Named(<<"a">>), <<32, <<"a">>>>},
           {Wide(0)}, {Wide(1)}, {Wide(0)}, {Wide(1)})

\* SpecForks: files with every combination of empty and non-empty forks;
\* stored (0), unsupported (5) and encrypted (0x8D, 0x10) methods; payloads of
\* one byte each, and size fields at the top of the uint32 range
ForkContents ==
  Contents({0, 141}, {0, 5, 141, 16}, {Named(<<"a">>)}, {Wide(0), Wide(1)}, {Wide(0), Wide(1)},
           {Wide(1)}, {Wide(1)})
  \cup Contents({0}, {0, 141}, {Named(<<"a">>)}, {Wide(0), Wide(1)}, {Wide(1)},
                {Wide(1), MaxU32}, {MaxU32})
  \cup Contents({0}, {160}, {Named(<<"a">>)}, {Wide(0)}, {Wide(1)}, {Wide(0)}, {Wide(1)})

\* SpecNames: files and folder starts under names with and without ':' and
\* in both cases of a letter, and folder ends
NameContents ==
  Contents({0}, {0, 32}, {Named(<<"a">>), Named(<<"A">>), Named(<<":">>), Named(<<"a", ":", "b">>)},
           {Wide(0)}, {Wide(1)}, {Wide(0)}, {Wide(1)})
  \cup Contents({0}, {33}, {Named(<<"a">>)}, {Wide(0)}, {Wide(0)}, {Wide(0)}, {Wide(0)})

\* the payload of the file that ends an archive of SpecFolders
FolderPayload == Wide(HeaderSize * FolderEntries)

\* SpecFolders: folders named a and b, folder ends, and a file f whose payload
\* runs up to the declared archive size
FolderContents ==
  Contents({0}, {32}, {Named(<<"a">>), Named(<<"b">>)}, {Wide(0)}, {Wide(0)}, {Wide(0)}, {Wide(0)})
  \cup Contents({0}, {33}, {Named(<<"a">>)}, {Wide(0)}, {Wide(0)}, {Wide(0)}, {Wide(0)})
  \cup Contents({0}, {0}, {Named(<<"f">>)}, {Wide(0)}, {FolderPayload}, {Wide(0)}, {FolderPayload})

\* how many entries the archives of SpecPrefix hold at most
PrefixEntries == 3

\* SpecPrefix: a file with a data fork, a file with both forks, a folder
\* start and a folder end, all named a
PrefixContents ==
  Contents({0}, {0, 32, 33}, {Named(<<"a">>)}, {Wide(0)}, {Wide(1)}, {Wide(0)}, {Wide(1)})
  \cup Contents({0}, {0}, {Named(<<"a">>)}, {Wide(1)}, {Wide(1)}, {Wide(1)}, {Wide(1)})

\* SpecParallel: files named a and b, each with a stored data fork of one
\* byte under the CRC of the byte 00 or of the byte 01
ParallelContents ==
  ContentsCRC(Contents({0}, {0}, {Named(<<"a">>), Named(<<"b">>)}, {Wide(0)}, {Wide(1)},
                       {Wide(0)}, {Wide(1)}),
              {0}, {crcFast(<<0>>), crcFast(<<1>>)})

\* how many entries the archives of SpecCalls hold
CallEntries == 2

\* SpecCalls: files named a with each fork empty or of one byte, the data
\* fork stored (0), of an unsupported method (5) or encrypted (0x8D)
CallContents ==
  Contents({0}, {0, 5}, {Named(<<"a">>)}, {Wide(0), Wide(1)}, {Wide(0), Wide(1)},
           {Wide(1)}, {Wide(1)})
  \cup Contents({0}, {141}, {Named(<<"a">>)}, {Wide(0)}, {Wide(1)}, {Wide(1)}, {Wide(1)})

\* how many payload bytes the streams of SpecStored hold at most
StoredBytes == 3

\* the CRCs of the blocks 00, 01 and 01 01
StoredCRCs == {crcFast(<<0>>), crcFast(<<1>>), crcFast(<<1, 1>>)}

\* SpecStored: a file with a data fork of one or two bytes whose compressed
\* size is smaller than, equal to or larger than that, under methods 0, 13
\* and 14 and with the CRC of some block or of none; and a file that has a
\* resource fork only
StoredContents ==
  ContentsCRC(Contents({0}, {0, 13, 14}, {Named(<<"a">>)}, {Wide(0)}, {Wide(1), Wide(2)},
                       {Wide(0)}, {Wide(1), Wide(2), Wide(3)}),
              {0}, StoredCRCs)
  \cup ContentsCRC(Contents({0}, {0}, {Named(<<"a">>)}, {Wide(1)}, {Wide(0)},
                            {Wide(1)}, {Wide(0)}),
                   StoredCRCs, {0})

\* every header content the specifications draw
AllContents ==
  GenContents \cup ForkContents \cup NameContents \cup FolderContents \cup CallContents
    \cup PrefixContents \cup ParallelContents
    \cup StoredContents

\* crcFast over the first 110 bytes, tabulated once for the contents drawn
HeaderCRCs == [c \in AllContents |-> crcFast(HeaderBytes(c))] @@ EmptyMap

\* the last two bytes of a header whose content is c: "good" holds the CRC of
\* the first 110 bytes high byte first, "swapped" holds it low byte first,
\* "bad" holds another value
CRCTail(c, mode) ==
  LET v == HeaderCRCs[c]
  IN CASE mode = "good" -> [b110 |-> v \div 256, b111 |-> v % 256]
       [] mode = "swapped" -> [b110 |-> v % 256, b111 |-> v \div 256]
       [] mode = "bad" -> [b110 |-> v \div 256, b111 |-> (v + 1) % 256]

\* the header with content c and the last two bytes of `mode`
Header(c, mode) == c @@ CRCTail(c, mode)

Headers(C, MODES) == {Header(c, mode) : c \in C, mode \in MODES}

\* crc.crcFast(header, sizeof(header) - 2) (line 206)
actualHeaderCRC(h) == HeaderCRCs[Content(h)]

(***************************************************************************)
(* open()                                                                  *)
(***************************************************************************)
\* a variant of s_magicNumbers whose loop stops one entry short
s_magicNumbers_OneShort ==
  {"SIT!", "ST65", "ST50", "ST60", "STin", "STi2", "STi3", "STi4"}

\* Some known values of StuffIt FourCC's
s_magicNumbers ==
  {"SIT!", "ST65", "ST50", "ST60", "STin", "STi2", "STi3", "STi4", "ST46"}

\* the loop over s_magicNumbers (lines 137-143)
found(tag) == tag \in s_magicNumbers

\* the second magic number (line 155)
SecondMagicOk(m) == m = "rLau"

\* offset of the second magic: after the tag, the file count and the archive size
SecondMagicAt == 10

\* a variant of LoopCond that lets the loop run with the position at the end
\* of the stream
LoopCond_AtEnd(st, asz) ==
  WLeq(st.pos, st.size) /\ ~st.eos /\ WLess(st.pos, asz)

\* the condition of the entry loop (line 168)
LoopCond(st, asz) ==
  WLess(st.pos, st.size) /\ ~st.eos /\ WLess(st.pos, asz)

\* dataForkCompression & 0x6f (line 211)
dirCheckMethod(h) == BitAnd(h.dataForkCompression, 111)

\* start of folder (line 215)
StartFolder(prefix, name) == prefix \o name \o <<":">>

\* a variant of EndFolder that searches from the last byte of the prefix, so
\* that it finds the delimiter that ends the prefix
EndFolder_FromLastByte(prefix) ==
  IF Len(prefix) > 0
  THEN LET secondLastDelimiter ==
             IF Len(prefix) > 1 THEN rfind(prefix, ":", Len(prefix) - 1) ELSE npos
       IN IF secondLastDelimiter = npos
          THEN <<>>
          ELSE substr0(prefix, secondLastDelimiter + 1)
  ELSE prefix

\* end of folder (lines 221-233)
EndFolder(prefix) ==
  IF Len(prefix) > 0
  THEN LET secondLastDelimiter ==
             IF Len(prefix) > 1 THEN rfind(prefix, ":", Len(prefix) - 2) ELSE npos
       IN IF secondLastDelimiter = npos
          THEN <<>>
          ELSE substr0(prefix, secondLastDelimiter + 1)
  ELSE prefix

\* the name a file entry is filed under (lines 237-240)
EntryName(flattenTree, prefix, name) == IF ~flattenTree THEN prefix \o name ELSE name

\* _map[path].<which> = fork, creating the entry when the key is new
SetFork(m, k, which, fork) ==
  LET e == IF k \in DOMAIN m THEN m[k] ELSE FileEntry
  IN (k :> [e EXCEPT ![which] = fork]) @@ m

\* the data fork descriptor of a file entry (lines 247-252)
DataFork(h, pos) ==
  [compression |-> h.dataForkCompression,
   uncompressedSize |-> h.dataForkUncompressedSize,
   compressedSize |-> h.dataForkCompressedSize,
   offset |-> ToU32(WAdd(pos, h.resForkCompressedSize)),
   crc |-> h.dataForkCRC]

\* the resource fork descriptor of a file entry (lines 260-265)
ResFork(h, pos) ==
  [compression |-> h.resForkCompression,
   uncompressedSize |-> h.resForkUncompressedSize,
   compressedSize |-> h.resForkCompressedSize,
   offset |-> ToU32(pos),
   crc |-> h.resForkCRC]

\* _map after a file entry (lines 244-268)
MapAfterEntry(m, k, h, pos) ==
  LET m1 == IF h.dataForkUncompressedSize # Wide(0) THEN SetFork(m, k, "dataFork", DataFork(h, pos)) ELSE m
  IN IF h.resForkUncompressedSize # Wide(0) THEN SetFork(m1, k, "resFork", ResFork(h, pos)) ELSE m1

\* finfo.toData(): the type, creator and flags of the header
FinderInfo(h) == [flags |-> h.flags]

\* close(): the stream is deleted and _map cleared (lines 277-281)
Close ==
  /\ _stream' = NoStream
  /\ _map' = EmptyMap

\* open(stream, flattenTree) up to the entry loop (lines 125-166).  A null
\* stream (s.present false) is what open(filename, ...) passes on when the
\* file does not exist.
Open(streams) ==
  /\ pc \in {"closed", "open", "failed"}
  /\ \E s \in streams, flattenTree \in BOOLEAN :
       LET tag == FieldAt(s.size, 0, 4, s.tag, "")
           asz == FieldAt(s.size, 6, 4, s.archiveSize, Wide(0))
           magic2 == FieldAt(s.size, SecondMagicAt, 4, s.magic2, "")
           st0 == [open |-> TRUE, size |-> Wide(s.size), pos |-> Wide(0), eos |-> FALSE]
       IN /\ src' = s
          /\ _flattenTree' = flattenTree
          /\ IF ~s.present \/ ~found(tag) \/ ~SecondMagicOk(magic2)
             THEN /\ Close
                  /\ pc' = "failed"
                  /\ ret' = Ret("open", <<>>, "false", Wide(0))
                  /\ UNCHANGED archiveSize
             ELSE /\ _stream' = StreamSkip(StreamRead(st0, 15), Wide(7))
                  /\ _map' = EmptyMap
                  /\ pc' = "parsing"
                  /\ ret' = NoRet
                  /\ archiveSize' = asz
  /\ dirPrefix' = <<>>
  /\ stack' = <<>>
  /\ last' = NoLast
  /\ UNCHANGED <<_metadataMap, err>>
  /\ UNCHANGED decoders

\* one iteration of the entry loop (lines 168-272)
ParseEntry(headers) ==
  /\ pc = "parsing"
  /\ LoopCond(_stream, archiveSize)
  /\ \E h \in headers :
       LET st1 == StreamRead(_stream, HeaderSize)
           short == WLess(_stream.size, WAdd(_stream.pos, Wide(HeaderSize)))
           name == EntryName(_flattenTree, dirPrefix, h.name)
           key == PathKey(name)
       IN IF h.fileNameLength > kMaxFileLength
          THEN /\ pc' = "fatal"
               /\ err' = "NameTooLong"
               /\ _stream' = st1
               /\ last' = [kind |-> "fatal", h |-> h, key |-> <<>>, short |-> short]
               /\ UNCHANGED <<dirPrefix, _map, _metadataMap, stack>>
          ELSE IF actualHeaderCRC(h) # headerCRC(h)
          THEN /\ pc' = "fatal"
               /\ err' = "HeaderCRC"
               /\ _stream' = st1
               /\ last' = [kind |-> "fatal", h |-> h, key |-> <<>>, short |-> short]
               /\ UNCHANGED <<dirPrefix, _map, _metadataMap, stack>>
          ELSE IF dirCheckMethod(h) = 32
          THEN /\ dirPrefix' = IF ~_flattenTree THEN StartFolder(dirPrefix, h.name) ELSE dirPrefix
               /\ stack' = Append(stack, h.name)
               /\ _stream' = st1
               /\ last' = [kind |-> "start", h |-> h, key |-> <<>>, short |-> short]
               /\ UNCHANGED <<pc, err, _map, _metadataMap>>
          ELSE IF dirCheckMethod(h) = 33
          THEN /\ dirPrefix' = IF ~_flattenTree THEN EndFolder(dirPrefix) ELSE dirPrefix
               /\ stack' = IF Len(stack) > 0 THEN SubSeq(stack, 1, Len(stack) - 1) ELSE stack
               /\ _stream' = st1
               /\ last' = [kind |-> "end", h |-> h, key |-> <<>>, short |-> short]
               /\ UNCHANGED <<pc, err, _map, _metadataMap>>
          ELSE /\ _metadataMap' = (key :> FinderInfo(h)) @@ _metadataMap
               /\ _map' = MapAfterEntry(_map, key, h, st1.pos)
               /\ _stream' = StreamSkip(st1, ToU32(WAdd(h.dataForkCompressedSize, h.resForkCompressedSize)))
               /\ last' = [kind |-> "file", h |-> h, key |-> key, short |-> short]
               /\ UNCHANGED <<pc, err, dirPrefix, stack>>
  /\ UNCHANGED <<_flattenTree, archiveSize, ret, src>>
  /\ UNCHANGED decoders

\* the entry loop ends and open() returns true (lines 168, 274)
OpenReturn ==
  /\ pc = "parsing"
  /\ ~LoopCond(_stream, archiveSize)
  /\ pc' = "open"
  /\ ret' = Ret("open", <<>>, "true", Wide(0))
  /\ UNCHANGED <<_stream, _flattenTree, archiveSize, dirPrefix, _map, _metadataMap,
                 err, src, stack, last>>
  /\ UNCHANGED decoders

(***************************************************************************)
(* Lookups and reads                                                       *)
(***************************************************************************)
\* hasFile(path) (lines 283-285)
hasFile(path) == PathKey(path) \in DOMAIN _map

\* translatePath(path) (lines 368-370)
translatePath(path) == IF _flattenTree THEN getLastComponent(path) ELSE path

Absent == [res |-> "absent", len |-> Wide(0), err |-> "none"]

Bytes(n) == [res |-> "bytes", len |-> n, err |-> "none"]

Fatal(e) == [res |-> "error", len |-> Wide(0), err |-> e]

\* a variant of IsEncrypted that tests the 0x80 flag alone
IsEncrypted_HighBit(fork) == BitAnd(fork.compression, 128) # 0

\* entryFork.compression & 0xF0 (line 335)
IsEncrypted(fork) == BitAnd(fork.compression, 240) # 0

\* the values a byte takes where nothing fixes it: a byte of the stream that
\* no specification spells out, a byte of a buffer that nothing wrote
ByteValues == {0, 1}

\* the value of a uint32 that is small enough for plain arithmetic
Narrow(w) == w[1] * Half + w[2]

Min(a, b) == IF a <= b THEN a ELSE b

\* the bytes an entry takes in an archive: its header and, for a file, the
\* payload of both forks (lines 211-271)
EntrySpan(h) ==
  HeaderSize + (IF dirCheckMethod(h) \in {32, 33} THEN 0
                ELSE Narrow(h.dataForkCompressedSize) + Narrow(h.resForkCompressedSize))

RECURSIVE LayoutPos(_, _)
\* the offset at which the entries after the first k entries of hs begin
LayoutPos(hs, k) ==
  IF k = 0 THEN ArchiveHeaderSize ELSE LayoutPos(hs, k - 1) + EntrySpan(hs[k])

\* the stream offset of the first byte after the first entry header
PayloadStart == ArchiveHeaderSize + HeaderSize

\* the values the byte at offset x of the stream can have: the byte the
\* stream spells out there (after its one entry header, or entry by entry),
\* any value where it spells out none
StreamByte(x) ==
  IF "payload" \in DOMAIN src /\ x >= PayloadStart /\ x - PayloadStart < Len(src.payload)
  THEN {src.payload[x - PayloadStart + 1]}
  ELSE IF "payloads" \in DOMAIN src
  THEN LET first(i) == LayoutPos(src.headers, i - 1) + HeaderSize
           holds == {i \in 1..Len(src.headers) : first(i) <= x /\ x < first(i) + Len(src.payloads[i])}
       IN IF holds = {} THEN ByteValues ELSE {src.payloads[i][x - first(i) + 1] : i \in holds}
  ELSE ByteValues

\* Common::SeekableSubReadStream subStream(_stream, offset, offset +
\* compressedSize) (line 338): the length of the range, the sum taken in
\* uint32; an end before the beginning leaves no bytes.  Lengths beyond Half
\* are given as Half, more than any read of a specification asks for.
SubStreamSize(fork) ==
  LET end == ToU32(WAdd(fork.offset, fork.compressedSize))
  IN IF WLess(fork.offset, end)
     THEN (IF end[1] - fork.offset[1] < 2
           THEN (end[1] - fork.offset[1]) * Half + end[2] - fork.offset[2]
           ELSE Half)
     ELSE 0

\* the bytes of the range that the parent stream holds
SubStreamLength(st, fork) ==
  LET end == ToU32(WAdd(fork.offset, fork.compressedSize))
      stop == IF WLess(st.size, end) THEN st.size ELSE end
  IN IF WLess(fork.offset, stop) THEN Narrow(stop) - Narrow(fork.offset) ELSE 0

\* the parent stream once the sub-stream has been built over it: it is left
\* at the beginning of the range
SubStreamOpen(st, fork) == [st EXCEPT !.pos = fork.offset, !.eos = FALSE]

\* the parent stream after the sub-stream handed out n bytes of its range
SubStreamRead(st, fork, n) == StreamRead(SubStreamOpen(st, fork), Min(n, SubStreamSize(fork)))

\* every block of n bytes
AnyBlocks(n) == [1..n -> ByteValues]

\* method 0 (lines 340-346): subStream.read(uncompressedBlock,
\* uncompressedSize) into new byte[uncompressedSize]; the bytes the read does
\* not deliver keep whatever the buffer held
StoredBlocks(st, fork) ==
  LET n == Narrow(fork.uncompressedSize)
      got == Min(n, SubStreamLength(st, fork))
      at == Narrow(fork.offset)
  IN {b \in AnyBlocks(n) : \A i \in 1..got : b[i] \in StreamByte(at + i - 1)}

\* a block returned with its length, and the parent stream as the read left it
Block(fork, b, st) == Bytes(fork.uncompressedSize) @@ [data |-> b, stream |-> st]

\* error() after the sub-stream was built
FatalAt(e, st) == Fatal(e) @@ [stream |-> st]

\* a variant of CheckCRC that returns the block without the comparison
CheckCRC_Skipped(fork, b, st) == Block(fork, b, st)

\* the CRC comparison and the return (lines 359-365)
CheckCRC(fork, b, st) ==
  IF crcFast(b) # fork.crc THEN FatalAt("PayloadCRC", st) ELSE Block(fork, b, st)

\* the parent stream after a decoder took some of the bytes of the range
DecoderStreams(st, fork) ==
  {[SubStreamOpen(st, fork) EXCEPT !.pos = WAdd(fork.offset, Wide(c))] :
     c \in 0..SubStreamLength(st, fork)}

\* The switch on entryFork.compression and the CRC comparison that follows
\* it (lines 338-365).  Method 0 copies from the sub-stream.  What the
\* decoders of methods 13 and 14 write into the block stays open here: any
\* block of uncompressedSize bytes; method 13 can also fail inside the
\* decoder.
Decompress(st, fork) ==
  CASE fork.compression = 0 ->
         {CheckCRC(fork, b, SubStreamRead(st, fork, Narrow(fork.uncompressedSize))) :
            b \in StoredBlocks(st, fork)}
    [] fork.compression = 13 ->
         {CheckCRC(fork, b, after) :
            b \in AnyBlocks(Narrow(fork.uncompressedSize)), after \in DecoderStreams(st, fork)}
         \cup {FatalAt("SIT13", after) : after \in DecoderStreams(st, fork)}
    [] fork.compression = 14 ->
         {CheckCRC(fork, b, after) :
            b \in AnyBlocks(Narrow(fork.uncompressedSize)), after \in DecoderStreams(st, fork)}
    [] OTHER -> {FatalAt("Unsupported", SubStreamOpen(st, fork))}

\* a variant of ReadFork without the test for an empty fork
ReadFork_NoEmptyTest(st, fork, isResFork) ==
  IF IsEncrypted(fork)
  THEN {Fatal("Encrypted")}
  ELSE Decompress(st, fork)

\* the outcomes a fork found in _map can have, st being the backing stream
\* as the call finds it (lines 325-365)
ReadFork(st, fork, isResFork) ==
  IF fork.uncompressedSize = Wide(0)
  THEN (IF isResFork THEN {Absent} ELSE {Bytes(Wide(0))})
  ELSE IF IsEncrypted(fork)
  THEN {Fatal("Encrypted")}
  ELSE Decompress(st, fork)

\* the outcomes of readContentsForPathFork(path, isResFork) on the backing
\* stream st and the map m (lines 319-366)
ReadOutcomes(st, m, path, isResFork) ==
  IF PathKey(path) \notin DOMAIN m
  THEN {Absent}
  ELSE LET entry == m[PathKey(path)]
       IN ReadFork(st, IF isResFork THEN entry.resFork ELSE entry.dataFork, isResFork)

\* readContentsForPathFork(path, isResFork): the outcomes it can have
readContentsForPathFork(path, isResFork) == ReadOutcomes(_stream, _map, path, isResFork)

\* a variant of MapAfterFind that looks the key up with operator[], which
\* files a default value under a key the map does not hold
MapAfterFind_Subscript(m, k) == IF k \in DOMAIN m THEN m ELSE (k :> FileEntry) @@ m

\* the map after _map.find(path) or _metadataMap.find(path) (lines 304, 320):
\* find() adds no key
MapAfterFind(m, k) == m

\* paths to ask about: every key of either map, and a path no archive holds
KeyProbes == DOMAIN _map \cup DOMAIN _metadataMap \cup {<<"b", "b">>}

\* paths to ask about: the keys, the keys under a folder, and their last
\* components
PathProbes ==
  KeyProbes \cup {<<"a", ":">> \o k : k \in KeyProbes}
            \cup {getLastComponent(k) : k \in KeyProbes}

\* a call of hasFile, on an archive object in any state that still runs
HasFile(probes) ==
  /\ pc \in {"closed", "open", "failed"}
  /\ \E p \in probes :
       ret' = Ret("hasFile", p, IF hasFile(p) THEN "true" ELSE "false", Wide(0))
  /\ UNCHANGED <<pc, _stream, _flattenTree, archiveSize, dirPrefix, _map, _metadataMap,
                 err, src, stack, last>>
  /\ UNCHANGED decoders

\* a call of listMembers (lines 287-292)
ListMembers ==
  /\ pc = "open"
  /\ ret' = [op |-> "listMembers", path |-> <<>>, res |-> "list",
             len |-> Wide(Cardinality(DOMAIN _map)), paths |-> DOMAIN _map, data |-> <<>>]
  /\ UNCHANGED <<pc, _stream, _flattenTree, archiveSize, dirPrefix, _map, _metadataMap,
                 err, src, stack, last>>
  /\ UNCHANGED decoders

\* a call that reads a fork: readContentsForPath (lines 298-300) for the data
\* fork, readContentsForPathAltStream with MacResourceFork (lines 313-314)
\* for the resource fork
ReadContents(probes) ==
  /\ pc = "open"
  /\ \E p \in probes, isResFork \in BOOLEAN :
       \E r \in readContentsForPathFork(p, isResFork) :
          /\ ret' = RetData(IF isResFork THEN "readResFork" ELSE "read", p, r.res, r.len,
                            IF "data" \in DOMAIN r THEN r.data ELSE <<>>)
          /\ err' = r.err
          /\ pc' = IF r.res = "error" THEN "fatal" ELSE pc
          /\ _stream' = IF "stream" \in DOMAIN r THEN r.stream ELSE _stream
          /\ _map' = MapAfterFind(_map, PathKey(p))
  /\ UNCHANGED <<_flattenTree, archiveSize, dirPrefix, _metadataMap, src, stack, last>>
  /\ UNCHANGED decoders

\* readContentsForPathAltStream with MacFinderInfo (lines 303-311)
ReadFinderInfo(probes) ==
  /\ pc = "open"
  /\ \E p \in probes :
       /\ ret' = IF PathKey(p) \in DOMAIN _metadataMap
                 THEN Ret("readFinderInfo", p, "bytes", Wide(16))
                 ELSE Ret("readFinderInfo", p, "absent", Wide(0))
       /\ _metadataMap' = MapAfterFind(_metadataMap, PathKey(p))
  /\ UNCHANGED <<pc, _stream, _flattenTree, archiveSize, dirPrefix, _map,
                 err, src, stack, last>>
  /\ UNCHANGED decoders

(***************************************************************************)
(* Reads side by side                                                      *)
(*                                                                         *)
(* Each read runs readContentsForPathFork with locals of its own: the      *)
(* sub-stream, the block.  The sub-stream is built over _stream, the one   *)
(* stream the archive holds (line 83); it takes its bytes from there with  *)
(* seek() and read(), the calls open() itself uses, and nothing in         *)
(* readContentsForPathFork keeps two reads apart.                          *)
(***************************************************************************)
\* a read gets as far as the statement after the construction of subStream
\* (lines 319-338), or returns or ends in error() before it
ThreadOpen(t) ==
  /\ pc = "open"
  /\ threads[t].pc = "idle"
  /\ \E p \in KeyProbes :
       /\ \A u \in DOMAIN threads \ {t} :
            IF threads[u].pc = "idle" THEN TRUE ELSE threads[u].path # p
       /\ LET early == ReadOutcomes(_stream, _map, p, FALSE) \cap {Absent, Bytes(Wide(0)), Fatal("Encrypted")}
              fork == _map[PathKey(p)].dataFork
          IN IF early # {}
             THEN \E r \in early :
                    /\ threads' = [threads EXCEPT ![t] = [pc |-> "done", path |-> p, res |-> r.res, data |-> <<>>]]
                    /\ pc' = IF r.res = "error" THEN "fatal" ELSE pc
                    /\ err' = r.err
                    /\ UNCHANGED _stream
             ELSE /\ threads' = [threads EXCEPT ![t] = [pc |-> "opened", path |-> p, fork |-> fork]]
                  /\ _stream' = SubStreamOpen(_stream, fork)
                  /\ UNCHANGED <<pc, err>>
  /\ UNCHANGED <<_flattenTree, archiveSize, dirPrefix, _map, _metadataMap, ret, src, stack, last,
                 sit13, sit14>>

\* the switch (lines 340-357): method 0 has the sub-stream read
\* uncompressedSize bytes, which it takes from the backing stream where that
\* stands; the decoders leave any bytes in the block and the backing stream
\* further on
ThreadRead(t) ==
  /\ pc = "open"
  /\ threads[t].pc = "opened"
  /\ LET fork == threads[t].fork
         n == Narrow(fork.uncompressedSize)
         after == StreamRead(_stream, Min(n, SubStreamSize(fork)))
         got == IF WLess(_stream.pos, after.pos) THEN Narrow(after.pos) - Narrow(_stream.pos) ELSE 0
         blocks == IF fork.compression = 0
                   THEN {b \in AnyBlocks(n) :
                           \A i \in 1..got : b[i] \in StreamByte(Narrow(_stream.pos) + i - 1)}
                   ELSE AnyBlocks(n)
     IN IF fork.compression \in {0, 13, 14}
        THEN /\ \E b \in blocks :
                  threads' = [threads EXCEPT ![t] = [@ EXCEPT !.pc = "read"] @@ [block |-> b]]
             /\ _stream' = after
             /\ UNCHANGED <<pc, err>>
        ELSE /\ threads' = [threads EXCEPT ![t] =
                              [pc |-> "done", path |-> @.path, res |-> "error", data |-> <<>>]]
             /\ pc' = "fatal"
             /\ err' = "Unsupported"
             /\ UNCHANGED _stream
  /\ UNCHANGED <<_flattenTree, archiveSize, dirPrefix, _map, _metadataMap, ret, src, stack, last,
                 sit13, sit14>>

\* the CRC comparison and the return (lines 359-365)
ThreadReturn(t) ==
  /\ pc = "open"
  /\ threads[t].pc = "read"
  /\ LET r == CheckCRC(threads[t].fork, threads[t].block, _stream)
     IN /\ threads' = [threads EXCEPT ![t] =
                         [pc |-> "done", path |-> @.path, res |-> r.res,
                          data |-> IF r.res = "bytes" THEN r.data ELSE <<>>]]
        /\ pc' = IF r.res = "error" THEN "fatal" ELSE pc
        /\ err' = r.err
  /\ UNCHANGED <<_stream, _flattenTree, archiveSize, dirPrefix, _map, _metadataMap, ret, src,
                 stack, last, sit13, sit14>>

(***************************************************************************)
(* Method 14: decompress14                                                 *)
(*                                                                         *)
(* sit14 holds m (blocks left), n (bytes left in the block), j (the window *)
(* position), the window (the positions written; the others hold the zero  *)
(* that new SIT14Data() gave them), bits (bits->pos() & 7), left (the      *)
(* symbols the payload still holds: none left is eos()), and as history    *)
(* declared (the n of the block header),                                   *)
(* out (every byte passed to OUTPUT_VAL), start (the length of out when    *)
(* the block began), block (its number), aligns (the ALIGN_BITS of the     *)
(* block so far, each with what it followed and the bits it skipped) and   *)
(* copy (the last match copied).  The code lengths a tree carries and the  *)
(* code of a symbol are input: they count here as bits taken.              *)
(***************************************************************************)
\* byte window[0x40000]
WindowSize14 == 262144

\* how many blocks a payload declares at most
MaxBlocks14 == 2

\* how many symbols a payload holds at most
MaxSymbols14 == 3

\* how deep the trees of a payload are nested at most
MaxNesting14 == 1

\* a variant of ALIGN_BITS that skips nothing
ALIGN_BITS_Never(pos) == pos

\* ALIGN_BITS(b) (lines 435-437): the position after it
ALIGN_BITS(pos) == IF pos % 8 # 0 THEN pos + (8 - (pos % 8)) ELSE pos

RECURSIVE readTree14(_, _, _)
\* readTree14 (lines 439-556) as far as the bit position goes: eight bits of
\* parameters; if the last of them says so, a tree for the code lengths, read
\* by readTree14 itself; the code lengths; ALIGN_BITS.  Gives the position
\* after each way the payload can go, with the ALIGN_BITS done on the way.
readTree14(pos, codesize, depth) ==
  LET lengths == {3}
      plain == {[pos |-> pos + 8, aligns |-> <<>>]}
      nested == IF depth > 0 THEN readTree14(pos + 8, 32, depth - 1) ELSE {}
  IN {[pos |-> ALIGN_BITS(t.pos + c),
       aligns |-> Append(t.aligns, [after |-> codesize,
                                    skipped |-> ALIGN_BITS(t.pos + c) - (t.pos + c)])] :
        t \in plain \cup nested, c \in lengths}

\* a variant of OUTPUT_VAL that leaves the window as it is
OUTPUT_VAL_NoWindow(d, x) ==
  [d EXCEPT !.out = Append(@, x), !.j = (d.j + 1) % WindowSize14]

\* OUTPUT_VAL(x) (lines 1025-1028)
OUTPUT_VAL(d, x) ==
  [d EXCEPT !.out = Append(@, x),
            !.window = (d.j :> x) @@ @,
            !.j = (d.j + 1) % WindowSize14]

RECURSIVE CopyLoop14(_, _, _)
\* while (k--) { l &= 0x3FFFF; OUTPUT_VAL(dat->window[l]); l++; } (lines 1107-1111)
CopyLoop14(d, l, k) ==
  IF k = 0 THEN d
  ELSE LET at == l % WindowSize14
       IN CopyLoop14(OUTPUT_VAL(d, IF at \in DOMAIN d.window THEN d.window[at] ELSE 0),
                     at + 1, k - 1)

RECURSIVE Base14(_, _)
\* var2[i] (first = 4, from 0) and var5[i] (first = 3, from 1): the sums the
\* initialization builds (lines 1040-1056)
Base14(i, first) ==
  IF i = 0 THEN (IF first = 4 THEN 0 ELSE 1)
  ELSE Base14(i - 1, first) + 2 ^ (IF i - 1 >= first THEN (i - 1 - first) \div 4 ELSE 0)

\* var1[i] (first = 4) and var4[i] (first = 3)
Extra14(i, first) == IF i >= first THEN (i - first) \div 4 ELSE 0

\* decompress14 up to the block loop (lines 1030-1067)
Begin14 ==
  /\ sit14.pc = "idle"
  /\ \E m \in 0..MaxBlocks14, left \in 0..MaxSymbols14 :
       sit14' = [pc |-> "block", m |-> m, n |-> Wide(0), declared |-> Wide(0), j |-> 0,
                 window |-> EmptyMap,
                 bits |-> 16 % 8, left |-> left, out |-> <<>>, start |-> 0, block |-> 0,
                 aligns |-> <<>>, copy |-> [at |-> 0, d |-> 0, k |-> 0, block |-> 0]]
  /\ UNCHANGED <<archive, threads, sit13>>

\* the test of the block loop and the block header (lines 1069-1073)
Block14 ==
  /\ sit14.pc = "block"
  /\ IF sit14.m # 0 /\ sit14.left > 0
     THEN \E n \in {Wide(0), Wide(1), Wide(5)} :
            sit14' = [sit14 EXCEPT !.pc = "var7", !.m = @ - 1, !.n = n, !.declared = n,
                                   !.bits = (@ + 64) % 8, !.start = Len(sit14.out),
                                   !.block = @ + 1, !.aligns = <<>>]
     ELSE sit14' = [sit14 EXCEPT !.pc = "done"]
  /\ UNCHANGED <<archive, threads, sit13>>

\* readTree14(bits, dat, 308, dat->var7) and readTree14(bits, dat, 75,
\* dat->var3) (lines 1074-1075)
Tree14 ==
  /\ sit14.pc \in {"var7", "var3"}
  /\ \E t \in readTree14(sit14.bits, IF sit14.pc = "var7" THEN 308 ELSE 75, MaxNesting14) :
       sit14' = [sit14 EXCEPT !.pc = IF sit14.pc = "var7" THEN "var3" ELSE "symbols",
                              !.bits = t.pos % 8,
                              !.aligns = @ \o t.aligns]
  /\ UNCHANGED <<archive, threads, sit13>>

\* one turn of the symbol loop (lines 1077-1112): a literal, or a match with
\* the extra bits of its length and of its offset.  The trees of the block
\* give the literal 1 a code of 1 bit, the literal 2 a code of 2 bits, and
\* the length and offset symbols codes of 3 bits.
Symbol14 ==
  /\ sit14.pc = "symbols"
  /\ sit14.n # Wide(0)
  /\ sit14.left > 0
  /\ \E i \in {1, 2, 256},
        far \in {<<0, 0>>, <<1, 0>>, <<67, 0>>, <<67, 1>>} :
       LET d0 == [sit14 EXCEPT !.left = @ - 1]
           code == IF i < 256 THEN i ELSE 3
           k == Base14(i - 256, 4) + 4
           l == Base14(far[1], 3) + far[2]
           taken == 2 * code + Extra14(i - 256, 4) + Extra14(far[1], 3)
           n == IF sit14.n[2] >= k THEN <<sit14.n[1], sit14.n[2] - k>>
                ELSE <<(sit14.n[1] + Half - 1) % Half, sit14.n[2] + Half - k>>
       IN IF i < 256
          THEN /\ far = <<0, 0>>
               /\ sit14' = [OUTPUT_VAL(d0, i) EXCEPT
                              !.n = IF @[2] > 0 THEN <<@[1], @[2] - 1>> ELSE <<@[1] - 1, Half - 1>>,
                              !.bits = (@ + code) % 8]
          ELSE sit14' = [CopyLoop14(d0, sit14.j + 5 * WindowSize14 - l, k) EXCEPT
                           !.n = n,
                           !.bits = (@ + taken) % 8,
                           !.copy = [at |-> Len(sit14.out), d |-> l, k |-> k,
                                     block |-> sit14.block]]
  /\ UNCHANGED <<archive, threads, sit13>>

\* the symbol loop ends; ALIGN_BITS(bits) (lines 1077, 1115)
BlockEnd14 ==
  /\ sit14.pc = "symbols"
  /\ sit14.n = Wide(0) \/ sit14.left = 0
  /\ sit14' = [sit14 EXCEPT !.pc = "block",
                            !.bits = ALIGN_BITS(sit14.bits) % 8,
                            !.aligns = Append(@, [after |-> 0,
                                                  skipped |-> ALIGN_BITS(sit14.bits) - sit14.bits])]
  /\ UNCHANGED <<archive, threads, sit13>>

(***************************************************************************)
(* Method 13: the decoding tables                                          *)
(*                                                                         *)
(* A table (Buffer2, Buffer3, Buffer3b) has 0x1000 slots of data and bits, *)
(* all zero when new SIT13Data() returns; Buffer4 holds the nodes of the   *)
(* overflow trees of all three, and MaxBits is the next free node.  A tree *)
(* is given by the code lengths SIT13_CreateTree left in Buffer5, here     *)
(* the symbols with a positive length only: the others have length -1,     *)
(* sort first and get no code.                                             *)
(***************************************************************************)
\* SIT13_Func1 (lines 691-727): the code info of length bits gets symbol num.
\* walk is the while (j--) loop (lines 715-724): one node down per bit of
\* info, a new node where there is none.
SIT13_Func1(s, buf, info, bits, num) ==
  LET RECURSIVE walk(_, _, _, _)
      walk(t, node, rest, j) ==
        IF j = 0 THEN [s |-> t, node |-> node]
        ELSE LET side == IF rest % 2 = 1 THEN "d2" ELSE "d1"
                 u == IF t.Buffer4[node][side] = 0
                        THEN [t EXCEPT !.Buffer4[node][side] = t.MaxBits, !.MaxBits = @ + 1]
                        ELSE t
             IN walk(u, u.Buffer4[node][side], rest \div 2, j - 1)
      slot == info % 4096
      first == IF s[buf][slot].bits # 31
                 THEN [s EXCEPT ![buf][slot] = [data |-> s.MaxBits, bits |-> 31],
                                !.MaxBits = @ + 1]
                 ELSE s
      w == walk(first, first[buf][slot].data, info \div 4096, bits - 12)
  IN IF bits <= 12
       THEN [s EXCEPT ![buf] = [k \in 0..4095 |->
                                  IF k >= info /\ (k - info) % (2 ^ bits) = 0
                                    THEN [data |-> num, bits |-> bits]
                                    ELSE s[buf][k]]]
       ELSE [w.s EXCEPT !.Buffer4[w.node].freq = num]

\* k of SIT13_Func2 for a new length j (lines 804-807): 0 for -1, else
\* 1 << (32 - j).  The shift is defined for j in 1..32; for any other j
\* (0, or below -1) it is not, and the value here is the 0 a build may give
\* (Finish13 takes up the other outcome).
Shift13(j) ==
  IF j >= 1 /\ j <= 16 THEN <<2 ^ (16 - j), 0>>
  ELSE IF j > 16 /\ j <= 32 THEN <<0, 2 ^ (32 - j)>>
  ELSE Wide(0)

\* SIT13_Func2 (lines 791-816) on the entries b5 of Buffer5: SIT13_SortTree
\* (lines 729-789) orders them by bits, then by data; codes is the for loop
\* (lines 798-815), with info the 32 bits of l reversed (lines 811-812), l
\* and k being 32 bits wide.  The lengths that are not above zero come
\* first: k is 0 for them, l stays 0 and they get no code (line 809), so the
\* loop is taken up at the first length above zero.
SIT13_Func2(s, buf, b5) ==
  LET RECURSIVE reverse(_, _)
      reverse(x, n) ==
        IF n = 0 THEN 0 ELSE (x % 2) * 2 ^ (n - 1) + reverse(x \div 2, n - 1)
      RECURSIVE sort(_)
      sort(rest) ==
        IF rest = {} THEN <<>>
        ELSE LET first == CHOOSE a \in rest : \A b \in rest :
                            a.bits < b.bits \/ (a.bits = b.bits /\ a.data <= b.data)
             IN <<first>> \o sort(rest \ {first})
      sorted == sort({e \in b5 : e.bits > 0})
      RECURSIVE codes(_, _, _, _, _)
      codes(t, i, l, k, j) ==
        IF i > Len(sorted) THEN t
        ELSE LET l2 == ToU32(WAdd(l, k))
                 m == sorted[i].bits
                 k2 == IF m # j THEN Shift13(m) ELSE k
             IN codes(SIT13_Func1(t, buf, reverse(l2[2], 16) * Half + reverse(l2[1], 16),
                                  m, sorted[i].data),
                      i + 1, l2, k2, m)
  IN codes(s, 1, Wide(0), Wide(0), 0)

\* the code lengths of the three trees of the payloads drawn: the first
\* primary tree, the second primary tree, the offset tree.  Each leaves
\* codes without a symbol, and each has a code of 13 bits, 1101000000000,
\* whose sibling 1101000000001 has no symbol.
TreeLengths13 ==
  [Buffer3  |-> {[data |-> 1, bits |-> 1], [data |-> 2, bits |-> 3],
                 [data |-> 256, bits |-> 3], [data |-> 320, bits |-> 4],
                 [data |-> 3, bits |-> 13]},
   Buffer3b |-> {[data |-> 2, bits |-> 1], [data |-> 1, bits |-> 3],
                 [data |-> 257, bits |-> 3], [data |-> 320, bits |-> 4],
                 [data |-> 4, bits |-> 13]},
   Buffer2  |-> {[data |-> 0, bits |-> 2], [data |-> 1, bits |-> 2],
                 [data |-> 2, bits |-> 3], [data |-> 3, bits |-> 3],
                 [data |-> 16, bits |-> 4], [data |-> 4, bits |-> 13]}]

\* new SIT13Data() and the start of decompress13 (lines 990-999): MaxBits is
\* 1, the nodes 1..0x703 have freq -1, node 0 and the nodes from 0x704 keep
\* the freq 0 of the constructor
SIT13Data ==
  LET empty == [k \in 0..4095 |-> [data |-> 0, bits |-> 0]]
  IN [MaxBits |-> 1,
      Buffer4 |-> [i \in 0..3591 |->
                     [freq |-> IF i >= 1 /\ i < 1796 THEN -1 ELSE 0, d1 |-> 0, d2 |-> 0]],
      Buffer2 |-> empty, Buffer3 |-> empty, Buffer3b |-> empty]

\* the three SIT13_CreateTree calls of decompress13 (lines 1014-1020), each
\* ending in SIT13_Func2 on the lengths it read
SIT13Tables ==
  SIT13_Func2(SIT13_Func2(SIT13_Func2(SIT13Data, "Buffer3", TreeLengths13.Buffer3),
                          "Buffer3b", TreeLengths13.Buffer3b),
              "Buffer2", TreeLengths13.Buffer2)

(***************************************************************************)
(* Method 13: SIT13_Extract                                                *)
(*                                                                         *)
(* sit13 holds buf (the active primary table), wpos, the Window (the       *)
(* positions written; the others hold the zero of new SIT13Data()), bits   *)
(* (the bits of the payload from where SIT13_Extract starts, in the order  *)
(* BitStream8LSB gives them) and pos (how many are taken); when pc is      *)
(* "done", res is what SIT13_Extract returned.  As history it holds out    *)
(* (every byte passed to out.writeByte) and item, the last turn of the     *)
(* loop: its kind, the table its symbol came from, the symbol, whether a   *)
(* lookup of the turn landed where no code was assigned (hole), and for a  *)
(* match the offset symbol v, its extra bits, the length and the length    *)
(* of out before the copy.                                                 *)
(***************************************************************************)
\* uint8 Window[0x10000]
WindowSize13 == 65536

\* how many bytes a payload has at most after its trees
MaxBytes13 == 3

\* the bytes a payload is made of: each holds codes of TreeLengths13, whole
\* or in part, or extra bits
CodeBytes13 == {0, 3, 11, 16, 29, 61, 82, 93, 128, 157, 255}

Payloads13 == UNION {[1..n -> CodeBytes13] : n \in 0..MaxBytes13}

RECURSIVE BitsOf(_)
\* the bits of the bytes in the order BitStream8LSB gives them: bit 0 of a
\* byte first
BitsOf(bytes) ==
  IF bytes = <<>> THEN <<>>
  ELSE [i \in 1..8 |-> (Head(bytes) \div 2 ^ (i - 1)) % 2] \o BitsOf(Tail(bytes))

RECURSIVE peekBits(_, _, _)
\* the next n bits, the first one lowest; zero past the end
peekBits(bits, pos, n) ==
  IF n = 0 THEN 0
  ELSE (IF pos + 1 <= Len(bits) THEN bits[pos + 1] ELSE 0) + 2 * peekBits(bits, pos + 1, n - 1)

\* a lookup in table buf (lines 868-884 without the test of j, and lines
\* 909-924): the symbol l, the position after it, the bits of the slot (j),
\* and whether it landed on a slot or a child no code was assigned to.
\* descend is while (s->Buffer4[j].freq == -1) j = bits->getBit() ? d2 : d1.
SIT13_Lookup(s, buf, bits, pos) ==
  LET slot == s[buf][peekBits(bits, pos, 12)]
      RECURSIVE descend(_, _, _)
      descend(j, at, hole) ==
        IF s.Buffer4[j].freq = -1
          THEN LET next == IF peekBits(bits, at, 1) = 1 THEN s.Buffer4[j].d2
                           ELSE s.Buffer4[j].d1
               IN descend(next, at + 1, IF next = 0 THEN TRUE ELSE hole)
          ELSE [l |-> s.Buffer4[j].freq, pos |-> at, hole |-> hole, j |-> slot.bits]
  IN IF slot.bits <= 12
       THEN [l |-> slot.data, pos |-> pos + slot.bits, hole |-> slot.bits = 0,
             j |-> slot.bits]
       ELSE descend(slot.data, pos + 12, FALSE)

\* s->Window[wpos++] = b; out.writeByte(b); wpos &= 0xFFFF
SIT13_Output(d, b) ==
  [d EXCEPT !.Window = (d.wpos :> b) @@ @,
            !.out = Append(@, b),
            !.wpos = (d.wpos + 1) % WindowSize13]

RECURSIVE SIT13_CopyLoop(_, _, _)
\* while (size--) { l &= 0xFFFF; b = s->Window[l++]; ... } (lines 928-935)
SIT13_CopyLoop(d, l, size) ==
  IF size = 0 THEN d
  ELSE LET at == l % WindowSize13
       IN SIT13_CopyLoop(SIT13_Output(d, IF at \in DOMAIN d.Window THEN d.Window[at] ELSE 0),
                         at + 1, size - 1)

\* a variant of ActiveTree that stays with the first primary table
ActiveTree_First(l) == "Buffer3"

\* buf after a symbol l: buf = s->Buffer3 after a literal (line 890),
\* buf = s->Buffer3b after any other symbol (line 894)
ActiveTree(l) == IF l < 256 THEN "Buffer3" ELSE "Buffer3b"

\* a variant of Offset13 that takes k for the distance
Offset13_NoBias(v, extra) == IF v = 0 THEN 0 ELSE 2 ^ (v - 1) + extra

\* k + 1 of lines 924-927: k = 0; if (l--) k = (1 << l) | bits->getBits(l);
\* the bits of getBits(l) lie below 1 << l
Offset13(v, extra) == (IF v = 0 THEN 0 ELSE 2 ^ (v - 1) + extra) + 1

NoItem13 ==
  [kind |-> "none", table |-> "Buffer3", sym |-> 0, hole |-> FALSE,
   v |-> 0, extra |-> 0, size |-> 0, from |-> 0]

\* one turn of while (!bits->eos()) (lines 866-937), and return false after
\* the loop (line 939)
SIT13_Turn(d) ==
  LET s == SIT13Tables
      p == SIT13_Lookup(s, d.buf, d.bits, d.pos)
      l == p.l
      it == [NoItem13 EXCEPT !.table = d.buf, !.sym = l, !.hole = p.hole,
                             !.from = Len(d.out)]
      long == IF l = 318 THEN peekBits(d.bits, p.pos, 10) + 65
              ELSE peekBits(d.bits, p.pos, 15) + 65
      size == IF l < 318 THEN l - 256 + 3 ELSE long
      sized == IF l < 318 THEN p.pos ELSE IF l = 318 THEN p.pos + 10 ELSE p.pos + 15
      q == SIT13_Lookup(s, "Buffer2", d.bits, sized)
      v == q.l
      extra == IF v = 0 THEN 0 ELSE peekBits(d.bits, q.pos, v - 1)
      after == IF v = 0 THEN q.pos ELSE q.pos + (v - 1)
  IN IF d.pos >= Len(d.bits)
       THEN [d EXCEPT !.pc = "done", !.res = FALSE,
                      !.item = [NoItem13 EXCEPT !.kind = "eos", !.table = d.buf]]
     ELSE IF p.j = 0
       THEN [d EXCEPT !.pc = "done", !.res = FALSE, !.item = [it EXCEPT !.kind = "fail"]]
     ELSE IF l < 256
       THEN [SIT13_Output(d, l) EXCEPT !.pos = p.pos, !.buf = ActiveTree(l),
                                       !.item = [it EXCEPT !.kind = "literal"]]
     ELSE IF l = 320
       THEN [d EXCEPT !.pc = "done", !.res = TRUE, !.pos = p.pos, !.buf = ActiveTree(l),
                      !.item = [it EXCEPT !.kind = "end"]]
     ELSE [SIT13_CopyLoop(d, d.wpos + WindowSize13 - Offset13(v, extra), size)
             EXCEPT !.pos = after, !.buf = ActiveTree(l),
                    !.item = [it EXCEPT !.kind = "match", !.hole = IF q.hole THEN TRUE ELSE p.hole,
                                        !.v = v, !.extra = extra, !.size = size]]

\* SIT13_Extract is entered (lines 863-864) with the tables built
Begin13 ==
  /\ sit13.pc = "idle"
  /\ \E bytes \in Payloads13 :
       sit13' = [pc |-> "loop", res |-> FALSE, buf |-> "Buffer3", wpos |-> 0,
                 Window |-> EmptyMap, out |-> <<>>, bits |-> BitsOf(bytes), pos |-> 0,
                 item |-> NoItem13]
  /\ UNCHANGED <<archive, threads, sit14>>

\* the loop of SIT13_Extract turns once, or ends
Extract13 ==
  /\ sit13.pc = "loop"
  /\ sit13' = SIT13_Turn(sit13)
  /\ UNCHANGED <<archive, threads, sit14>>

(***************************************************************************)
(* Method 13: SIT13_CreateTree                                             *)
(*                                                                         *)
(* While a tree is read, sit13 holds buf (the table the tree is for), num, *)
(* the locals i and bi, bits and pos as in SIT13_Extract, and Buffer5: the *)
(* bits field at every index written, those at and above 0x141, where the  *)
(* struct has TextBuf, among them.  As history it holds turn, the last     *)
(* turn of the loop: the symbol read, the i it began with and the indices  *)
(* it wrote.  When pc is "built", tables is SIT13Data after SIT13_Func2.   *)
(***************************************************************************)
\* SIT13Info and SIT13InfoBits (lines 591-602)
SIT13Info ==
  <<1496, 88, 64, 192, 0, 120, 43, 20, 12, 28, 27, 11, 16, 32, 56, 24,
    216, 3032, 384, 1664, 896, 3968, 1920, 1152, 128, 640, 984, 4056, 2008, 2520, 472, 4,
    1, 2, 7, 3, 8>>

SIT13InfoBits ==
  <<11, 8, 8, 8, 8, 7, 6, 5, 5, 5, 5, 6, 5, 6, 7, 7,
    9, 12, 10, 11, 11, 12, 12, 11, 11, 11, 12, 12, 12, 12, 12, 5,
    2, 2, 3, 4, 5>>

\* s->Buffer1 after the loop of lines 993-994
Buffer1 ==
  LET RECURSIVE fill(_, _)
      fill(s, i) ==
        IF i = 37 THEN s
        ELSE fill(SIT13_Func1(s, "Buffer1", SIT13Info[i + 1], SIT13InfoBits[i + 1], i), i + 1)
  IN fill([MaxBits |-> 1, Buffer1 |-> [k \in 0..4095 |-> [data |-> 0, bits |-> 0]]], 0).Buffer1

\* the value of an int8 that was assigned x
ToInt8(x) == ((x + 128) % 256) - 128

\* num of the calls for the primary trees (lines 1014, 1018)
PrimaryCodes13 == 321

\* num of the calls for the offset tree drawn, of the 10..17 of (j&7)+10
OffsetCodes13 == {10, 17}

\* how many bytes a tree of the offset table has at most
MaxCreateBytes13 == 3

\* the bytes of such a tree: codes of the symbols 31 (4), 32 (85), 33 (170),
\* 32 and then 34 (61), 35 (115) and 36 (232), whole or in part, and extra
\* bits; the zero bits past the end are the code of symbol 4
CreateBytes13 == {4, 61, 85, 115, 170, 232}

\* the payloads of a primary tree: five times symbol 36 with 73 copies, at
\* first (bi is 0), after symbol 31 (bi is -1), and after symbol 31 with
\* symbol 8 (bi is 9) before the fifth
LongPayloads13 ==
  {<<232, 71, 63, 250, 209, 143, 126>>,
   <<4, 253, 232, 71, 63, 250, 209, 15>>,
   <<4, 253, 232, 71, 63, 250, 25, 250, 1>>}

\* the calls of SIT13_CreateTree drawn: a primary tree, read first, and an
\* offset tree, read when the two primary tables are there
CreateCalls13 ==
  {[buf |-> "Buffer3", num |-> PrimaryCodes13, bytes |-> b] : b \in LongPayloads13}
  \cup {[buf |-> "Buffer2", num |-> n, bytes |-> b] :
          n \in OffsetCodes13,
          b \in UNION {[1..k -> CreateBytes13] : k \in 0..MaxCreateBytes13}}

\* SIT13Data when the offset tree is read: the two primary tables are built
PrimaryTables13 ==
  SIT13_Func2(SIT13_Func2(SIT13Data, "Buffer3", TreeLengths13.Buffer3),
              "Buffer3b", TreeLengths13.Buffer3b)

NoTurn13 == [sym |-> 0, first |-> 0, wrote |-> {}]

\* one turn of for(i = 0; i < num; ++i) (lines 949-977): the symbol through
\* Buffer1, the switch, the copies s->Buffer5[i++].bits = bi of the cases 3,
\* 4 and 5, the write s->Buffer5[i].bits = bi after the switch, and ++i
SIT13_CreateTurn(d) ==
  LET b == Buffer1[peekBits(d.bits, d.pos, 12)]
      data == b.data
      at == d.pos + b.bits
      case == data - 31
      more == IF case = 3 THEN 1 ELSE IF case = 4 THEN 3 ELSE IF case = 5 THEN 6 ELSE 0
      copies == IF case = 3 THEN peekBits(d.bits, at, 1)
                ELSE IF case = 4 THEN peekBits(d.bits, at, 3) + 2
                ELSE IF case = 5 THEN peekBits(d.bits, at, 6) + 10
                ELSE 0
      bi == IF case = 0 THEN -1
            ELSE IF case = 1 THEN ToInt8(d.bi + 1)
            ELSE IF case = 2 THEN ToInt8(d.bi - 1)
            ELSE IF case \in {3, 4, 5} THEN d.bi
            ELSE ToInt8(data + 1)
      wrote == d.i .. (d.i + copies)
  IN [d EXCEPT !.Buffer5 = [x \in wrote |-> bi] @@ @,
               !.i = d.i + copies + 1,
               !.bi = bi,
               !.pos = at + more,
               !.turn = [sym |-> data, first |-> d.i, wrote |-> wrote]]

\* SIT13_CreateTree is called (lines 942-947, 1014-1020)
BeginCreate13 ==
  /\ sit13.pc = "idle"
  /\ \E c \in CreateCalls13 :
       sit13' = [pc |-> "create", buf |-> c.buf, num |-> c.num, i |-> 0, bi |-> 0,
                 bits |-> BitsOf(c.bytes), pos |-> 0, Buffer5 |-> EmptyMap,
                 turn |-> NoTurn13, tables |-> <<>>]
  /\ UNCHANGED <<archive, threads, sit14>>

\* the loop turns once
CreateTurn13 ==
  /\ sit13.pc = "create"
  /\ sit13.i < sit13.num
  /\ sit13' = SIT13_CreateTurn(sit13)
  /\ UNCHANGED <<archive, threads, sit14>>

\* a length for which SIT13_Func2 shifts 1 by 32 or more, or by less than 0
\* (line 807)
UndefinedShift13(len) == len = 0 \/ len < -1 \/ len > 32

\* the loop is over: the data fields are set and SIT13_Func2 builds the table
\* (lines 978-980).  Where a length makes the shift of line 807 undefined,
\* k is 0, or it is a value that sends SIT13_Func1 off the table ("fault").
Finish13 ==
  /\ sit13.pc = "create"
  /\ sit13.i >= sit13.num
  /\ LET b5 == {[data |-> x, bits |-> sit13.Buffer5[x]] : x \in 0..(sit13.num - 1)}
         s == IF sit13.buf = "Buffer3" THEN SIT13Data ELSE PrimaryTables13
     IN \E end \in IF \E e \in b5 : UndefinedShift13(e.bits) THEN {"built", "fault"}
                   ELSE {"built"} :
          sit13' = [sit13 EXCEPT
                      !.pc = end,
                      !.tables = IF end = "built" THEN SIT13_Func2(s, sit13.buf, b5) ELSE <<>>]
  /\ UNCHANGED <<archive, threads, sit14>>

(***************************************************************************)
(* Method 14: readTree14, bit by bit                                       *)
(*                                                                         *)
(* While a tree is read, sit14 holds bits and pos as sit13 does, the       *)
(* arrays code and freq of SIT14Data (the positions written; the others    *)
(* hold the zero of new SIT14Data()), result (the array of the outermost   *)
(* call) and stack, the locals of the calls of readTree14 that have not    *)
(* returned, the innermost first: kflag, k, j, o, size, m, codesize, i,    *)
(* whether the lengths come through a tree (nested), the place l of the    *)
(* walk in that tree and whether the walk reads a length or a repeat count *)
(* (phase).  As history it holds step, the last length read: the call's    *)
(* kflag, m and o, the index i before it, the value v, the count read for  *)
(* a repeat (extra), the length before index i (prev) and the lengths      *)
(* written (wrote).                                                        *)
(***************************************************************************)
\* the codesize of the outermost call of a run
TopCodes14 == 4

\* how many bytes a payload has at most
MaxTreeBytes14 == 4

\* the bytes a payload is made of: as parameters of a call or as packed
\* 2-bit lengths
TreeBytes14 == {0, 1, 13, 27, 64, 65, 170}

TreePayloads14 == UNION {[1..n -> TreeBytes14] : n \in 0..MaxTreeBytes14}

\* an element of an array of SIT14Data
At(a, x) == IF x \in DOMAIN a THEN a[x] ELSE 0

\* bits->pos() after n more bits.  Past the end every bit is zero and only
\* pos() & 7 is looked at, so a position there is kept modulo 8.
Advance(bits, pos, n) ==
  IF pos + n >= Len(bits) + 8 THEN Len(bits) + ((pos + n - Len(bits)) % 8) ELSE pos + n

RECURSIVE update14(_, _, _)
\* update14 (lines 376-412) on a = [code, freq]: part is the do loop, up and
\* down its two scans
update14(a, first, end) ==
  IF end - first <= 1 THEN a
  ELSE LET swap(b, i, j) ==
             [code |-> [b.code EXCEPT ![i] = b.code[j], ![j] = b.code[i]],
              freq |-> [b.freq EXCEPT ![i] = b.freq[j], ![j] = b.freq[i]]]
           RECURSIVE up(_, _)
           up(b, i) ==
             IF i + 1 < end /\ b.code[first] > b.code[i + 1] THEN up(b, i + 1) ELSE i + 1
           RECURSIVE down(_, _)
           down(b, j) ==
             IF j - 1 > first /\ b.code[first] < b.code[j - 1] THEN down(b, j - 1) ELSE j - 1
           RECURSIVE part(_, _, _)
           part(b, i, j) ==
             LET i2 == up(b, i)
                 j2 == down(b, j)
             IN IF j2 > i2 THEN part(swap(b, i2, j2), i2, j2) ELSE [a |-> b, j |-> j2]
           p == part(a, first, end)
       IN IF first # p.j
            THEN update14(update14(swap(p.a, first, p.j), p.j + 1, end), first, p.j)
            ELSE update14(p.a, first + 1, end)

\* the second half of readTree14 (lines 505-553) for the lengths
\* code[0..codesize-1]: sorted is codecopy and freq after update14, buff the
\* codes (the symbols of length 0 keep what buff held: it is not read), and
\* table the array result after the last loop, old being the array before.
\* The lengths of the model stay below 32, so no shift of j overflows.
BuildTree14(code, codesize, old) ==
  LET sorted == update14([code |-> [i \in 0..(codesize - 1) |-> At(code, i)],
                          freq |-> [i \in 0..(codesize - 1) |-> i]], 0, codesize)
      RECURSIVE reverse(_, _)
      reverse(x, n) ==
        IF n = 0 THEN 0 ELSE (x % 2) * 2 ^ (n - 1) + reverse((x \div 2) % Half, n - 1)
      nonempty == {i \in 0..(codesize - 1) : sorted.code[i] # 0}
      RECURSIVE assign(_, _, _)
      assign(i, j, buff) ==
        IF i >= codesize THEN buff
        ELSE LET j1 == IF i # 0 THEN j * 2 ^ (sorted.code[i] - sorted.code[i - 1]) ELSE j
             IN assign(i + 1, j1 + 1, (sorted.freq[i] :> reverse(j1, sorted.code[i])) @@ buff)
      buff == IF nonempty = {} THEN EmptyMap
              ELSE assign(CHOOSE i \in nonempty : \A x \in nonempty : i <= x, 0, EmptyMap)
      \* the loop over the bits of the code of symbol i (lines 537-552): res
      \* and j as the last bit leaves them
      RECURSIVE bit(_, _, _, _, _, _)
      bit(res, j, i, k, l, m) ==
        IF k >= At(code, i) THEN [res |-> res, j |-> j]
        ELSE LET l1 == l + (m % 2)
             IN IF At(code, i) - 1 <= k
                  THEN bit((l1 :> (codesize * 2 + i)) @@ res, j, i, k + 1, l1, m \div 2)
                ELSE IF At(res, l1) = 0
                  THEN bit((l1 :> j) @@ res, j + 2, i, k + 1, j, m \div 2)
                ELSE bit(res, j, i, k + 1, At(res, l1), m \div 2)
      \* the loop over the symbols (lines 533-553), r being res and j after symbol i
      RECURSIVE fill(_, _, _)
      fill(res, j, i) ==
        IF i >= codesize THEN res
        ELSE CHOOSE t \in {fill(r.res, r.j, i + 1) : r \in {bit(res, j, i, 0, 0, At(buff, i))}} :
               TRUE
  IN [freq |-> sorted.freq,
      table |-> fill([i \in 0..(codesize * 2 - 1) |-> 0] @@ old, 2, 0)]

\* a variant of Length14 after the words "0 gives length 0, m - 1 repeats
\* when the flag is set"
Length14_ZeroIsZero(f, v) ==
  IF v = 0 THEN "zero"
  ELSE IF v = (IF f.kflag THEN f.m - 1 ELSE f.m) THEN "repeat"
  ELSE "plain"

\* what a value v stands for (lines 462-481 and 488-500): if (k != l) { if
\* (l == m) repeat; else code[i++] = l + o; } else code[i++] = 0;
Length14(f, v) ==
  IF f.k # Wide(v) THEN (IF v = f.m THEN "repeat" ELSE "plain") ELSE "zero"

RECURSIVE Repeat14(_, _, _, _)
\* while (l--) { dat->code[i] = dat->code[i - 1]; ++i; }, with first the
\* length found before index i
Repeat14(code, i, first, l) ==
  IF l = 0 THEN code
  ELSE Repeat14((i :> first) @@ code, i + 1, first, l - 1)

NoStep14 ==
  [kind |-> "none", nested |-> FALSE, kflag |-> FALSE, m |-> 0, o |-> 0, i |-> 0, v |-> 0,
   extra |-> 0, prev |-> 0, wrote |-> <<>>]

\* decompress14 has its bit stream and its SIT14Data and calls readTree14
Read14 ==
  /\ sit14.pc = "idle"
  /\ \E bytes \in TreePayloads14 :
       sit14' = [pc |-> "call", bits |-> BitsOf(bytes), pos |-> 0, code |-> EmptyMap,
                 freq |-> EmptyMap, result |-> EmptyMap, stack |-> <<>>, step |-> NoStep14]
  /\ UNCHANGED <<archive, threads, sit13>>

\* readTree14 is entered (lines 440-446): by line 450 with codesize the size
\* of the caller, else with the codesize of the run
Call14 ==
  /\ sit14.pc = "call"
  /\ LET at(n) == Advance(sit14.bits, sit14.pos, n)
         kflag == peekBits(sit14.bits, sit14.pos, 1) = 1
         j == peekBits(sit14.bits, at(1), 2) + 2
         o == peekBits(sit14.bits, at(3), 3) + 1
         nested == peekBits(sit14.bits, at(6), 2) % 2 = 1
         size == 2 ^ j
         f == [kflag |-> kflag, k |-> IF kflag THEN Wide(size - 2) ELSE MaxU32,
               j |-> j, o |-> o, size |-> size, m |-> size - 1,
               codesize |-> IF sit14.stack = <<>> THEN TopCodes14 ELSE sit14.stack[1].size,
               i |-> 0, nested |-> nested, l |-> 0, phase |-> "value"]
     IN sit14' = [sit14 EXCEPT !.pc = IF nested THEN "call" ELSE "lengths",
                               !.pos = at(8), !.stack = <<f>> \o @]
  /\ UNCHANGED <<archive, threads, sit13>>

\* a length is read and stored: v is the value, l the count of a repeat.
\* With i = 0 a repeat reads dat->code[i - 1] off the array: any byte.
Store14(d, v, l, garbage) ==
  LET f == d.stack[1]
      what == Length14(f, v)
      prev == IF f.i = 0 THEN garbage ELSE At(d.code, f.i - 1)
      n == IF what = "repeat" THEN l ELSE 1
      b == IF what = "zero" THEN 0 ELSE IF what = "plain" THEN v + f.o ELSE prev
  IN [d EXCEPT !.code = Repeat14(d.code, f.i, b, n),
               !.stack[1].i = f.i + n, !.stack[1].l = 0, !.stack[1].phase = "value",
               !.step = [kind |-> what, nested |-> f.nested, kflag |-> f.kflag, m |-> f.m,
                         o |-> f.o, i |-> f.i, v |-> v,
                         extra |-> IF what = "repeat" THEN l - 3 ELSE 0,
                         prev |-> prev, wrote |-> [x \in 1..n |-> b]]]

\* one turn of for (i = 0; i < codesize; ) of the plain lengths (lines
\* 485-501)
Raw14 ==
  /\ sit14.pc = "lengths"
  /\ ~sit14.stack[1].nested
  /\ sit14.stack[1].i < sit14.stack[1].codesize
  /\ LET f == sit14.stack[1]
         v == peekBits(sit14.bits, sit14.pos, f.j)
         after == Advance(sit14.bits, sit14.pos, f.j)
         repeat == Length14(f, v) = "repeat"
         l == peekBits(sit14.bits, after, f.j) + 3
     IN \E garbage \in IF repeat /\ f.i = 0 THEN ByteValues ELSE {0} :
          sit14' = [Store14(sit14, v, l, garbage) EXCEPT
                      !.pos = IF repeat THEN Advance(sit14.bits, after, f.j) ELSE after]
  /\ UNCHANGED <<archive, threads, sit13>>

\* one turn of do { l = dat->freq[l + bits->getBit()]; n = size << 1; }
\* while (n > l) (lines 455-458 and 466-469), and with the last turn of it
\* what follows in the turn of for (i = 0; i < codesize; ) (lines 460-481)
Walk14 ==
  /\ sit14.pc = "lengths"
  /\ sit14.stack[1].nested
  /\ sit14.stack[1].i < sit14.stack[1].codesize
  /\ LET f == sit14.stack[1]
         l == At(sit14.freq, f.l + peekBits(sit14.bits, sit14.pos, 1))
         n == f.size * 2
         d == [sit14 EXCEPT !.pos = Advance(sit14.bits, sit14.pos, 1)]
     IN IF n > l
          THEN sit14' = [d EXCEPT !.stack[1].l = l]
        ELSE IF f.phase = "value" /\ Length14(f, l - n) = "repeat"
          THEN sit14' = [d EXCEPT !.stack[1].l = 0, !.stack[1].phase = "count"]
        ELSE \E garbage \in IF f.phase = "count" /\ f.i = 0 THEN ByteValues ELSE {0} :
               sit14' = IF f.phase = "count" THEN Store14(d, f.m, l + 3 - n, garbage)
                        ELSE Store14(d, l - n, 0, garbage)
  /\ UNCHANGED <<archive, threads, sit13>>

\* the lengths are read: the rest of readTree14 (lines 505-555) and its
\* return, to line 452 or to decompress14
Return14 ==
  /\ sit14.pc = "lengths"
  /\ sit14.stack[1].i >= sit14.stack[1].codesize
  /\ LET f == sit14.stack[1]
         inner == Len(sit14.stack) > 1
         t == BuildTree14(sit14.code, f.codesize,
                          IF inner THEN sit14.freq ELSE sit14.result)
     IN sit14' = [sit14 EXCEPT
                    !.pc = IF inner THEN "lengths" ELSE "read",
                    !.freq = IF inner THEN t.table ELSE t.freq @@ @,
                    !.result = IF inner THEN @ ELSE t.table,
                    !.pos = ALIGN_BITS(sit14.pos),
                    !.stack = Tail(@)]
  /\ UNCHANGED <<archive, threads, sit13>>

(***************************************************************************)
(* Specifications                                                          *)
(***************************************************************************)
NullStream == [present |-> FALSE, size |-> 0, tag |-> "", archiveSize |-> Wide(0), magic2 |-> ""]

\* stream lengths: the archive header and k whole entry headers, plus 0, 1
\* or 60 more bytes
SizesFor(n) == {ArchiveHeaderSize + HeaderSize * k + d : k \in 0..n, d \in {0, 1, 60}}

\* declared archive sizes: header boundaries up to one header past the
\* longest stream
ArchiveSizesFor(n) ==
  {Wide(0)} \cup {Wide(ArchiveHeaderSize + HeaderSize * k) : k \in 1..(n + 1)}

\* Spec: an accepted archive header; streams that end before, at and after
\* the declared archive size, on and off a header boundary
GenStreams == Streams(SizesFor(GenEntries), {"SIT!"}, ArchiveSizesFor(GenEntries), {"rLau"})

GenHeaders == Headers(GenContents, {"good", "bad", "swapped"})

Next ==
  \/ Open(GenStreams)
  \/ ParseEntry(GenHeaders)
  \/ OpenReturn
  \/ HasFile(KeyProbes)
  \/ ListMembers
  \/ ReadContents(KeyProbes)
  \/ ReadFinderInfo(KeyProbes)

Spec == Init /\ [][Next]_vars

\* SpecHeaders: one archive per object, of the streams and headers of Spec,
\* and open() alone
NextHeaders ==
  \/ (pc = "closed" /\ Open(GenStreams))
  \/ ParseEntry(GenHeaders)
  \/ OpenReturn

SpecHeaders == Init /\ [][NextHeaders]_vars

\* SpecMagic: every accepted tag and some others, both spellings of the second
\* magic, streams shorter than the archive header, and no stream at all
MagicTags ==
  {"SIT!", "ST65", "ST50", "ST60", "STin", "STi2", "STi3", "STi4", "ST46",
   "SIT?", "sit!", "ST64", "rLau"}

MagicStreams ==
  Streams({0, 3, 4, 13, 14, ArchiveHeaderSize, ArchiveHeaderSize + HeaderSize + 1},
          MagicTags, {Wide(ArchiveHeaderSize + HeaderSize)}, {"rLau", "rLaU", "SIT!"})
  \cup {NullStream}

MagicHeaders ==
  Headers(Contents({0}, {0}, {Named(<<"a">>)}, {Wide(0)}, {Wide(1)}, {Wide(0)}, {Wide(1)}),
          {"good", "bad"})

NextMagic ==
  \/ Open(MagicStreams)
  \/ ParseEntry(MagicHeaders)
  \/ OpenReturn
  \/ HasFile(KeyProbes)

SpecMagic == Init /\ [][NextMagic]_vars

\* SpecForks: one archive per object; the stream ends before, inside or after
\* the payload of its last entry
ForkStreams ==
  Streams({ArchiveHeaderSize + HeaderSize * k + d : k \in 1..ForkEntries, d \in {0, 1, 2}},
          {"SIT!"}, {Wide(ArchiveHeaderSize + (HeaderSize + 2) * ForkEntries)}, {"rLau"})

ForkHeaders == Headers(ForkContents, {"good"})

NextForks ==
  \/ (pc = "closed" /\ Open(ForkStreams))
  \/ ParseEntry(ForkHeaders)
  \/ OpenReturn
  \/ HasFile(KeyProbes)
  \/ ReadContents(KeyProbes)

SpecForks == Init /\ [][NextForks]_vars

\* SpecNames: one archive per object, whole, with room for NameEntries entries
NameStreams ==
  Streams({ArchiveHeaderSize + (HeaderSize + 1) * NameEntries},
          {"SIT!"}, {Wide(ArchiveHeaderSize + HeaderSize * NameEntries)}, {"rLau"})

NameHeaders == Headers(NameContents, {"good"})

NextNames ==
  \/ (pc = "closed" /\ Open(NameStreams))
  \/ ParseEntry(NameHeaders)
  \/ OpenReturn
  \/ HasFile(PathProbes)
  \/ ListMembers

SpecNames == Init /\ [][NextNames]_vars

\* SpecFolders: one archive per object: up to FolderEntries entry headers, the
\* last of them a file whose payload ends the archive
FolderStreams ==
  Streams({ArchiveHeaderSize + 2 * HeaderSize * FolderEntries},
          {"SIT!"}, {Wide(ArchiveHeaderSize + HeaderSize * FolderEntries)}, {"rLau"})

FolderHeaders == Headers(FolderContents, {"good"})

NextFolders ==
  \/ (pc = "closed" /\ Open(FolderStreams))
  \/ ParseEntry(FolderHeaders)
  \/ OpenReturn

SpecFolders == Init /\ [][NextFolders]_vars

\* SpecPrefix: one archive per object: up to PrefixEntries entries with
\* their payloads, whole or cut at the start of one of its entry headers;
\* the archive header declares the size of the whole archive
PrefixHeaders == Headers(PrefixContents, {"good"})

PrefixStreams ==
  UNION {{[present |-> TRUE, size |-> LayoutPos(hs, k), tag |-> "SIT!",
           archiveSize |-> Wide(LayoutPos(hs, n)), magic2 |-> "rLau", headers |-> hs] :
            hs \in [1..n -> PrefixHeaders], k \in 0..n} : n \in 0..PrefixEntries}

\* the entry header the stream holds at its position; where it holds less
\* than a whole header, header[112] ends up with bytes nothing fixes
HeadersHere ==
  LET whole == {i \in 1..Len(src.headers) :
                  /\ Wide(LayoutPos(src.headers, i - 1)) = _stream.pos
                  /\ LayoutPos(src.headers, i - 1) + HeaderSize <= src.size}
  IN IF whole = {} THEN Headers(PrefixContents, {"good", "bad"})
     ELSE {src.headers[i] : i \in whole}

NextPrefix ==
  \/ (pc = "closed" /\ Open(PrefixStreams))
  \/ ParseEntry(HeadersHere)
  \/ OpenReturn

SpecPrefix == Init /\ [][NextPrefix]_vars

\* SpecParallel: one archive per object, of the file a and the file b with
\* their payload bytes spelt out, and two reads side by side
ParallelStreams ==
  {[present |-> TRUE, size |-> LayoutPos(hs, 2), tag |-> "SIT!",
    archiveSize |-> Wide(LayoutPos(hs, 2)), magic2 |-> "rLau", headers |-> hs, payloads |-> ps] :
     hs \in {h \in [1..2 -> Headers(ParallelContents, {"good"})] :
               h[1].name = <<"a">> /\ h[2].name = <<"b">>},
     ps \in [1..2 -> AnyBlocks(1)]}

NextParallel ==
  \/ (pc = "closed" /\ Open(ParallelStreams))
  \/ ParseEntry(HeadersHere)
  \/ OpenReturn
  \/ \E t \in DOMAIN threads : ThreadOpen(t)
  \/ \E t \in DOMAIN threads : ThreadRead(t)
  \/ \E t \in DOMAIN threads : ThreadReturn(t)

SpecParallel == Init /\ [][NextParallel]_vars

\* SpecCalls: one whole archive per object, and every call on the open archive
CallStreams ==
  Streams({ArchiveHeaderSize + (HeaderSize + 2) * CallEntries}, {"SIT!"},
          {Wide(ArchiveHeaderSize + (HeaderSize + 2) * CallEntries)}, {"rLau"})

CallHeaders == Headers(CallContents, {"good"})

NextCalls ==
  \/ (pc = "closed" /\ Open(CallStreams))
  \/ ParseEntry(CallHeaders)
  \/ OpenReturn
  \/ HasFile(KeyProbes)
  \/ ListMembers
  \/ ReadContents(KeyProbes)
  \/ ReadFinderInfo(KeyProbes)

SpecCalls == Init /\ [][NextCalls]_vars

\* SpecStored: one archive per object, of one entry, whose stream spells out
\* the bytes that follow the entry header
StoredPayloads == UNION {AnyBlocks(n) : n \in 0..StoredBytes}

StoredStreams ==
  {[present |-> TRUE, size |-> PayloadStart + Len(p), tag |-> "SIT!",
    archiveSize |-> Wide(PayloadStart), magic2 |-> "rLau", payload |-> p] :
     p \in StoredPayloads}

StoredHeaders == Headers(StoredContents, {"good"})

NextStored ==
  \/ (pc = "closed" /\ Open(StoredStreams))
  \/ ParseEntry(StoredHeaders)
  \/ OpenReturn
  \/ ReadContents(KeyProbes)

SpecStored == Init /\ [][NextStored]_vars

\* Spec14: one run of decompress14
Next14 ==
  \/ Begin14
  \/ Block14
  \/ Tree14
  \/ Symbol14
  \/ BlockEnd14

Spec14 == Init /\ [][Next14]_vars

\* SpecTree14: one call of readTree14 from decompress14
NextTree14 ==
  \/ Read14
  \/ Call14
  \/ Raw14
  \/ Walk14
  \/ Return14

SpecTree14 == Init /\ [][NextTree14]_vars

\* readTree14 is at the end of its length loop, about to build the table
ReturnDue14 ==
  /\ sit14.pc = "lengths"
  /\ sit14.stack[1].i >= sit14.stack[1].codesize

\* the decoder is not held up: a step that can be taken is taken.  The
\* condition on Return14 is weak fairness with its enabling condition
\* written out.
FairTree14 ==
  /\ SpecTree14
  /\ WF_vars(Read14)
  /\ WF_vars(Call14)
  /\ WF_vars(Raw14)
  /\ WF_vars(Walk14)
  /\ ([]<>(~ReturnDue14) \/ []<><<Return14>>_vars)

\* Spec13: one run of SIT13_Extract
Next13 ==
  \/ Begin13
  \/ Extract13

Spec13 == Init /\ [][Next13]_vars

\* SpecCreate13: one call of SIT13_CreateTree
NextCreate13 ==
  \/ BeginCreate13
  \/ CreateTurn13
  \/ Finish13

SpecCreate13 == Init /\ [][NextCreate13]_vars

(***************************************************************************)
(* Properties of open(): the archive header                                *)
(***************************************************************************)
\* the stream holds one of the nine accepted tags in its first four bytes and
\* rLau in the four bytes at offset 10
AcceptedStream(s) ==
  /\ s.present
  /\ s.size >= 14
  /\ s.tag \in {"SIT!", "ST65", "ST50", "ST60", "STin", "STi2", "STi3", "STi4", "ST46"}
  /\ s.magic2 = "rLau"

\* C1: open() gets past the archive header only when the first four bytes of
\* the stream are one of the nine accepted tags and the four bytes at offset
\* 10 are rLau; for every other stream open() returns false, the stream
\* pointer is null (isOpen() is false) and hasFile(p) is false for every p,
\* also for the paths an earlier archive of the same object held.
C1_OpenChecksMagics ==
  pc # "closed" =>
    IF AcceptedStream(src)
    THEN pc # "failed"
    ELSE /\ pc = "failed"
         /\ ~_stream.open
         /\ ret.op \in {"open", "hasFile"}
         /\ ret.res = "false"
         /\ \A p \in PathProbes : ~hasFile(p)

\* an archive was indexed, then the same object was handed a stream with an
\* accepted tag and a wrong second magic, and hasFile was asked about a path
\* of the old archive
C1_Witness ==
  /\ pc = "failed"
  /\ src.size >= 14
  /\ src.tag = "ST46"
  /\ src.magic2 = "rLaU"
  /\ DOMAIN _metadataMap # {}
  /\ ret.op = "hasFile"
  /\ ret.path \in DOMAIN _metadataMap

(***************************************************************************)
(* Properties of open(): the entry headers                                 *)
(***************************************************************************)
\* the last two bytes of the header read last differ from the CRC-16 of its
\* first 110 bytes, the stored value taken high byte first
LastHeaderMismatch ==
  /\ last.kind # "none"
  /\ HeaderCRCs[Content(last.h)] # last.h.b110 * 256 + last.h.b111

\* open() ended in error() while it handled the header read last
FatalInOpen == pc = "fatal" /\ last.kind = "fatal"

StreamCutShort == WLess(_stream.size, archiveSize) \/ last.short

\* C3 as stated: when the stream ends before the declared archive size or
\* inside an entry header, open() fails with a Truncated error: it neither
\* returns true nor ends in the header-CRC or name-length error.
C3_TruncatedIsReported ==
  (StreamCutShort /\ (FatalInOpen \/ (pc = "open" /\ ret.op = "open"))) =>
    err = "Truncated"

(***************************************************************************)
(* Properties of open(): folders and keys                                  *)
(***************************************************************************)
RECURSIVE JoinFolders(_)
\* the names of a stack of folders, outermost first, each followed by ':'
JoinFolders(names) ==
  IF names = <<>> THEN <<>>
  ELSE JoinFolders(SubSeq(names, 1, Len(names) - 1)) \o names[Len(names)] \o <<":">>

\* C4: without flattening, after start-folder and end-folder headers whose
\* names hold no ':', a file entry is filed under the names of the folders
\* open at that point, outermost first, each followed by ':', followed by the
\* file name (keys compare ignoring case), at every depth the archives reach
\* and after siblings were opened and closed.
C4_KeyIsFolderPathAndName ==
  (last.kind = "file" /\ ~_flattenTree) =>
    /\ last.key = ToLower(JoinFolders(stack) \o last.h.name)
    /\ last.key \in DOMAIN _map
    /\ last.key \in DOMAIN _metadataMap

\* a file filed eight folders deep, after a sibling folder was opened and
\* closed
C4_Witness ==
  /\ last.kind = "file"
  /\ ~_flattenTree
  /\ Len(stack) = 8
  /\ _stream.pos = Wide(ArchiveHeaderSize + HeaderSize * 11 + HeaderSize * FolderEntries)
  /\ last.key = <<"a", ":", "b", ":", "a", ":", "b", ":", "a", ":", "b", ":", "a", ":", "b", ":", "f">>

\* C5 as stated: without flattening, after any entry headers with any names
\* the folder prefix holds as many levels as there are folders started and
\* not yet ended.
C5_PrefixLevelsAreNesting ==
  (pc \in {"parsing", "open"} /\ ~_flattenTree) => CountColons(dirPrefix) = Len(stack)

\* C6 as stated: with flattening, no key of _map holds a ':', whatever the
\* entry names are.
C6_FlatKeysHaveNoSeparator ==
  (pc \in {"parsing", "open"} /\ _flattenTree) => \A k \in DOMAIN _map : ~HasColon(k)

\* C7 as stated: with flattening, hasFile(p) is hasFile of the last component
\* of p, for every path p.
C7_HasFileTakesLastComponent ==
  (pc = "open" /\ _flattenTree) =>
    \A p \in PathProbes : hasFile(p) = hasFile(getLastComponent(p))

(***************************************************************************)
(* Properties of the fork descriptors and of reads                         *)
(***************************************************************************)
\* the forks of the entries of _map that hold bytes
StoredForks ==
  {e.dataFork : e \in {_map[k] : k \in DOMAIN _map}}
    \cup {e.resFork : e \in {_map[k] : k \in DOMAIN _map}}

\* C8 as stated: after open() returned true, the byte range of every fork
\* with a non-zero uncompressed size ends inside the stream.
C8_ForkRangeInsideStream ==
  pc = "open" =>
    \A fork \in StoredForks :
       fork.uncompressedSize # Wide(0) =>
         WLeq(WAdd(fork.offset, fork.compressedSize), _stream.size)

\* C9: for a path of _map, a read of a fork whose uncompressed size is 0 has
\* one outcome: zero bytes for the data fork, absent for the resource fork;
\* it does not end in error(), whatever compression byte the entry header
\* gave that fork.
C9_EmptyForkReads ==
  /\ \A k \in DOMAIN _map :
       /\ _map[k].dataFork.uncompressedSize = Wide(0) =>
            readContentsForPathFork(k, FALSE) = {Bytes(Wide(0))}
       /\ _map[k].resFork.uncompressedSize = Wide(0) =>
            readContentsForPathFork(k, TRUE) = {Absent}
  /\ (ret.op = "read" /\ ret.path \in DOMAIN _map
        /\ _map[ret.path].dataFork.uncompressedSize = Wide(0)) =>
       (ret.res = "bytes" /\ ret.len = Wide(0) /\ pc = "open" /\ err = "none")
  /\ (ret.op = "readResFork" /\ ret.path \in DOMAIN _map
        /\ _map[ret.path].resFork.uncompressedSize = Wide(0)) =>
       (ret.res = "absent" /\ pc = "open" /\ err = "none")

\* the data fork of a file whose header gave it size 0 and the compression
\* byte 0x8D was read
C9_Witness ==
  /\ ret.op = "read"
  /\ ret.res = "bytes"
  /\ ret.len = Wide(0)
  /\ last.kind = "file"
  /\ ret.path = last.key
  /\ last.h.dataForkUncompressedSize = Wide(0)
  /\ last.h.dataForkCompression = 141
  /\ last.key \in DOMAIN _map

\* the header read last is a file whose data fork holds bytes and has one of
\* the high four bits of its compression byte set
LastIsEncryptedFile ==
  /\ last.kind = "file"
  /\ last.h.dataForkCompression \notin {32, 33, 160, 161, 48, 49, 176, 177}
  /\ last.h.dataForkUncompressedSize # Wide(0)
  /\ last.h.dataForkCompression \div 16 # 0

\* C10: a file entry whose data fork holds bytes and has one of the high four
\* bits of its compression byte set is indexed by open(), so hasFile is true
\* for its path, and a read of its data fork ends in the encryption error and
\* has no other outcome, whatever the low four bits are.
C10_EncryptedForkIsIndexedNotRead ==
  /\ LastIsEncryptedFile =>
       /\ hasFile(last.key)
       /\ readContentsForPathFork(last.key, FALSE) = {Fatal("Encrypted")}
  /\ (LastIsEncryptedFile /\ ret.op = "hasFile" /\ ret.path = last.key) => ret.res = "true"
  /\ (LastIsEncryptedFile /\ ret.op = "read" /\ ret.path = last.key) =>
       (ret.res = "error" /\ ret.len = Wide(0) /\ err = "Encrypted" /\ pc = "fatal")

\* the data fork of a file with compression byte 0x10 was read
C10_Witness ==
  /\ LastIsEncryptedFile
  /\ last.h.dataForkCompression = 16
  /\ ret.op = "read"
  /\ ret.path = last.key
  /\ err = "Encrypted"


(***************************************************************************)
(* Properties of reads: the bytes returned                                 *)
(***************************************************************************)
\* the fork descriptor the last read looked up
LastReadFork ==
  LET entry == _map[PathKey(ret.path)]
  IN IF ret.op = "readResFork" THEN entry.resFork ELSE entry.dataFork

\* the last call was a read of a fork that _map holds, and it returned a block
ReadReturnedBlock ==
  /\ ret.op \in {"read", "readResFork"}
  /\ ret.res = "bytes"
  /\ PathKey(ret.path) \in DOMAIN _map

\* C11: a read of a fork stored with method 0 returns bytes only when the
\* compressed size of the fork equals its uncompressed size, and then the
\* bytes are the ones the stream holds from the fork's offset on.
C11_StoredSizesAgree ==
  (ReadReturnedBlock /\ LastReadFork.compression = 0 /\ LastReadFork.uncompressedSize # Wide(0))
    => /\ LastReadFork.compressedSize = LastReadFork.uncompressedSize
       /\ \A i \in 1..Len(ret.data) :
            ret.data[i] \in StreamByte(Narrow(LastReadFork.offset) + i - 1)

\* C12: every block a read returns has the uncompressed size of its fork
\* descriptor as its length, and its CRC-16 is the CRC of the descriptor;
\* the empty data fork comes back as no bytes, under a descriptor CRC of 0.
C12_BlockMatchesDescriptor ==
  ReadReturnedBlock
    => /\ ret.len = LastReadFork.uncompressedSize
       /\ Len(ret.data) = Narrow(LastReadFork.uncompressedSize)
       /\ crcFast(ret.data) = LastReadFork.crc

\* a method 13 fork came back as two bytes with a CRC other than 0
C12_Witness ==
  /\ ReadReturnedBlock
  /\ LastReadFork.compression = 13
  /\ Len(ret.data) = 2
  /\ LastReadFork.crc # 0

(***************************************************************************)
(* Properties of the calls on an open archive                              *)
(***************************************************************************)
\* C13: once open() has returned true, a call of hasFile, listMembers, a read
\* of either fork or a read of the Finder info, whether it returns bytes,
\* reports absence or ends in error(), leaves _map and _metadataMap as they
\* were, and with them the outcomes every later read of a fork can have.
C13_CallsLeaveIndexAlone ==
  [][pc = "open"
       => /\ _map' = _map
          /\ _metadataMap' = _metadataMap
          /\ \A p \in KeyProbes, isResFork \in BOOLEAN :
               ReadOutcomes(_stream', _map', p, isResFork) = ReadOutcomes(_stream, _map, p, isResFork)]_vars

\* a read of an indexed fork ended in error(), and both maps still hold keys
C13_Witness ==
  /\ pc = "fatal"
  /\ ret.op = "read"
  /\ ret.res = "error"
  /\ PathKey(ret.path) \in DOMAIN _map
  /\ DOMAIN _metadataMap # {}

(***************************************************************************)
(* Properties of open(): a stream cut at the start of an entry header      *)
(***************************************************************************)
RECURSIVE IndexAfter(_, _, _)
\* the folder prefix and the two maps the entry loop has after the first k
\* entries of the archive hs
IndexAfter(hs, k, flattenTree) ==
  IF k = 0 THEN [prefix |-> <<>>, map |-> EmptyMap, meta |-> EmptyMap]
  ELSE LET before == IndexAfter(hs, k - 1, flattenTree)
           h == hs[k]
           key == PathKey(EntryName(flattenTree, before.prefix, h.name))
       IN CASE dirCheckMethod(h) = 32 ->
                 [before EXCEPT !.prefix =
                    IF ~flattenTree THEN StartFolder(before.prefix, h.name) ELSE before.prefix]
            [] dirCheckMethod(h) = 33 ->
                 [before EXCEPT !.prefix =
                    IF ~flattenTree THEN EndFolder(before.prefix) ELSE before.prefix]
            [] OTHER ->
                 [before EXCEPT
                    !.map = MapAfterEntry(before.map, key, h,
                                          Wide(LayoutPos(hs, k - 1) + HeaderSize)),
                    !.meta = (key :> FinderInfo(h)) @@ before.meta]

\* the number of entries that lie before the position of the stream
EntriesBefore == {k \in 0..Len(src.headers) : Wide(LayoutPos(src.headers, k)) = _stream.pos}

\* C14: on a stream that holds an archive up to the start of one of its entry
\* headers, under the archive header of the whole archive, open() ends in no
\* error and returns true, and at that point, as after every entry of the
\* whole archive, both maps are what the entries before that offset make
\* them: the same keys with the same fork descriptors.
C14_CutParseIsPrefix ==
  /\ pc \notin {"fatal", "failed"}
  /\ pc \in {"parsing", "open"} =>
       \E k \in EntriesBefore :
          /\ _map = IndexAfter(src.headers, k, _flattenTree).map
          /\ _metadataMap = IndexAfter(src.headers, k, _flattenTree).meta
          /\ pc = "open" => (ret.res = "true" /\ src.size = LayoutPos(src.headers, k))

\* open() returned on an archive of three entries cut after the second, with
\* a file indexed under a folder
C14_Witness ==
  /\ pc = "open"
  /\ Len(src.headers) = 3
  /\ src.size = LayoutPos(src.headers, 2)
  /\ src.size < Narrow(src.archiveSize)
  /\ <<"a", ":", "a">> \in DOMAIN _map

C16_WindowCarriesOutput ==
  sit14.pc # "idle" =>
    /\ sit14.j = Len(sit14.out) % WindowSize14
    /\ DOMAIN sit14.window = {(i - 1) % WindowSize14 : i \in 1..Len(sit14.out)}
    /\ LET c == sit14.copy
       IN (c.k > 0 /\ c.d <= WindowSize14) =>
            \A i \in 1..c.k :
               sit14.out[c.at + i] =
                 IF c.at + i - c.d >= 1 THEN sit14.out[c.at + i - c.d] ELSE 0

\* the first symbol of the second block is a match that begins with a byte of
\* the first block, and that byte is not zero
C16_Witness ==
  /\ sit14.pc # "idle"
  /\ sit14.block = 2
  /\ sit14.copy.block = 2
  /\ sit14.copy.at = sit14.start
  /\ sit14.copy.at + 1 - sit14.copy.d >= 1
  /\ sit14.out[sit14.copy.at + 1] # 0

\* what each ALIGN_BITS of the block so far came after: 32 for a tree of code
\* lengths, 308 and 75 for the two trees of the block, 0 for the symbols
AlignsAfter == [i \in 1..Len(sit14.aligns) |-> sit14.aligns[i].after]

IsNot32(x) == x # 32

\* C20 as stated: the only ALIGN_BITS of a block that skips bits is the one
\* after the last symbol.
C20_AlignsOncePerBlock ==
  sit14.pc # "idle" =>
    \A i \in 1..Len(sit14.aligns) : sit14.aligns[i].skipped > 0 => sit14.aligns[i].after = 0

\* C20, amended: the bit position is brought to a byte boundary at the end of
\* every tree read (a tree of code lengths, the literal/length tree, the
\* offset tree) and after the last symbol of the block, and nowhere else:
\* the block header, each tree and the symbols begin on a byte boundary, and
\* no ALIGN_BITS falls between two symbols.
C20_AlignsAfterTreesAndSymbols ==
  sit14.pc # "idle" =>
    LET outer == SelectSeq(AlignsAfter, IsNot32)
        n == Len(AlignsAfter)
    IN /\ n > 0 => AlignsAfter[n] # 32
       /\ CASE sit14.pc = "var7" -> outer = <<>> /\ sit14.bits = 0
            [] sit14.pc = "var3" -> outer = <<308>> /\ sit14.bits = 0
            [] sit14.pc = "symbols" ->
                 outer = <<308, 75>> /\ (Len(sit14.out) = sit14.start => sit14.bits = 0)
            [] OTHER -> outer \in {<<>>, <<308, 75, 0>>} /\ sit14.bits = 0

\* a block ended whose literal/length tree came with a tree of code lengths,
\* and bits were skipped after that tree, after both trees of the block and
\* after the symbols
C20_Witness ==
  /\ sit14.pc = "block"
  /\ AlignsAfter = <<32, 308, 75, 0>>
  /\ \A i \in 1..4 : sit14.aligns[i].skipped > 0

(***************************************************************************)
(* Properties of method 13                                                 *)
(***************************************************************************)
Turned13 == sit13.pc = "loop" /\ sit13' # sit13 /\ sit13'.item.kind \notin {"none", "eos"}

\* C17: in the method-13 loop the table a primary symbol is decoded from is
\* given by the item before it: the first primary table for the first symbol
\* and after a literal, the second primary table after a match; nothing else
\* changes the active table.
C17_TableFollowsLastItem ==
  [][Turned13 =>
       /\ sit13'.item.table = IF sit13.item.kind = "match" THEN "Buffer3b" ELSE "Buffer3"
       /\ sit13.item.kind \in {"none", "literal", "match"}
       /\ sit13.buf = sit13'.item.table]_vars

C17_Witness ==
  /\ sit13.pc = "loop"
  /\ sit13.item.kind = "literal"
  /\ sit13.item.table = "Buffer3b"
  /\ sit13.item.sym = 2
  /\ sit13.item.from >= 4

\* the last turn of the loop copied a match
Matched13 == sit13.pc # "idle" /\ sit13.item.kind = "match"

\* the distance of the last match, from its offset symbol and its extra bits
Distance13 ==
  IF sit13.item.v = 0 THEN 1 ELSE (2 ^ (sit13.item.v - 1) + sit13.item.extra) + 1

\* C18: in method 13 a match with offset symbol v has distance 1 when v = 0
\* and (1 << (v-1) | extra) + 1 with v-1 extra bits otherwise; each byte it
\* copies is the byte emitted that distance before it, zero before the start
\* of the output, so a match longer than its distance repeats with that
\* period.
C18_CopyFollowsDistance ==
  Matched13 =>
    /\ sit13.item.v > 0 => sit13.item.extra \in 0..(2 ^ (sit13.item.v - 1) - 1)
    /\ Distance13 \in 1..WindowSize13
    /\ Len(sit13.out) = sit13.item.from + sit13.item.size
    /\ \A i \in 1..sit13.item.size :
         sit13.out[sit13.item.from + i] =
           IF sit13.item.from + i - Distance13 >= 1
             THEN sit13.out[sit13.item.from + i - Distance13]
             ELSE 0
    /\ sit13.wpos = Len(sit13.out) % WindowSize13

C18_Witness ==
  /\ Matched13
  /\ sit13.item.v = 1
  /\ sit13.item.size = 3
  /\ sit13.out = <<1, 2, 1, 2, 1>>

\* C19: a method-13 decode fails whenever a lookup lands where no code was
\* assigned (an unassigned slot of the active primary table or of the offset
\* table, or an unassigned child in the overflow tree of either): the decoder
\* returns false and no symbol is produced and used.
C19_UnassignedLookupFails ==
  (sit13.pc # "idle" /\ sit13.item.hole) =>
    /\ sit13.pc = "done"
    /\ ~sit13.res
    /\ sit13.item.kind = "fail"
    /\ Len(sit13.out) = sit13.item.from

(***************************************************************************)
(* Properties of method 14: reading a tree                                 *)
(***************************************************************************)
\* a length has just been read by readTree14
Stepped14 == sit14.pc \in {"call", "lengths", "read"} /\ sit14.step.kind # "none"

\* the lengths a repeat of the last step stands for
Repeated14 == [x \in 1..(3 + sit14.step.extra) |-> sit14.step.prev]

\* C21 as stated: in method-14 tree reading a value v gives, in the nested
\* and in the plain encoding alike, length 0 when v = 0, a repeat of the
\* previous length 3 + extra times when v is the repeat marker (m - 1 with
\* k_flag set, m with k_flag clear), and length v + o otherwise.
C21_ZeroGivesZero ==
  Stepped14 =>
    IF sit14.step.v = 0 THEN sit14.step.wrote = <<0>>
    ELSE IF sit14.step.v = (IF sit14.step.kflag THEN sit14.step.m - 1 ELSE sit14.step.m)
      THEN sit14.step.wrote = Repeated14
    ELSE sit14.step.wrote = <<sit14.step.v + sit14.step.o>>

\* C21, amended: in method-14 tree reading a value v gives, in the nested
\* and in the plain encoding alike, a repeat of the previous length
\* 3 + extra times when v = m, whatever k_flag is; length 0 when k_flag is
\* set and v = m - 1; and length v + o otherwise, v = 0 included.  The
\* lengths are stored from index i on, and the previous length is the one
\* at index i - 1 when there is one.
C21_MarkerIsM ==
  Stepped14 =>
    /\ IF sit14.step.v = sit14.step.m
         THEN sit14.step.extra >= 0 /\ sit14.step.wrote = Repeated14
       ELSE IF sit14.step.kflag /\ sit14.step.v = sit14.step.m - 1
         THEN sit14.step.wrote = <<0>>
       ELSE sit14.step.wrote = <<sit14.step.v + sit14.step.o>>
    /\ \A x \in 1..Len(sit14.step.wrote) :
         At(sit14.code, sit14.step.i + x - 1) = sit14.step.wrote[x]
    /\ sit14.step.i > 0 => sit14.step.prev = At(sit14.code, sit14.step.i - 1)

C21_Witness ==
  /\ Stepped14
  /\ sit14.step.nested
  /\ sit14.step.kflag
  /\ sit14.step.v = sit14.step.m - 1
  /\ sit14.step.i > 0
  /\ At(sit14.code, sit14.step.i - 1) > 0

(***************************************************************************)
(* Properties of method 14: the bytes of a block                           *)
(***************************************************************************)
\* the bytes put out for the block that is being decoded or was decoded last
Emitted14 == Len(sit14.out) - sit14.start

\* C22: a method-14 block with declared byte count n stops decoding symbols
\* when exactly n bytes are out for it, and the count of bytes still owed
\* never passes below zero, also when the last match is longer than what is
\* owed; a block with n = 0 reads its trees and puts out nothing.
C22_BlockStopsAtCount ==
  (sit14.pc \in {"symbols", "block", "done"} /\ sit14.block >= 1) =>
    /\ WLeq(Wide(Emitted14), sit14.declared)
    /\ WAdd(sit14.n, Wide(Emitted14)) = sit14.declared
    /\ (sit14.pc = "block" /\ sit14.left > 0) => Wide(Emitted14) = sit14.declared

\* C23: method-14 decoding comes to an end on every finite payload, reads
\* past the end giving zero bits: whatever the trees sent, a tree with no
\* length above zero among them, the call of readTree14 returns.
C23_TreeReadReturns == <>(sit14.pc = "read")

\* C24: after any open, _map and _metadataMap have the same keys, and a
\* request for the Finder info of a path returns a record exactly when
\* hasFile of that path is true, a file with two empty forks included.
C24_FinderInfoIffHasFile ==
  pc = "open" =>
    /\ DOMAIN _map = DOMAIN _metadataMap
    /\ ret.op = "readFinderInfo" => ((ret.res = "bytes") <=> hasFile(ret.path))


\* C25: when SIT13_CreateTree reads num lengths, every write to Buffer5 is
\* at an index below num and none is above index 0x140, whatever the bits:
\* the copies of the symbols 34, 35 and 36 stay below num as well.
C25_WritesBelowNum ==
  sit13.pc \in {"create", "built", "fault"} =>
    \A x \in DOMAIN sit13.Buffer5 : x < sit13.num /\ x <= 320

=============================================================================
